---- MODULE Spec2Model ----
(***************************************************************************)
(* Stuffed records (dcreager/stuffed-records-go): the byte-stuffing codec  *)
(* of stuffed/stuffed.go and the RecordBuilder of stuffed/records.go.      *)
(*                                                                         *)
(* A Go []byte is a sequence of integers 0..255.  Go offsets are 0-based;  *)
(* Slice(s, lo, hi) is the Go expression s[lo:hi].                         *)
(***************************************************************************)
EXTENDS Integers, Sequences, FiniteSets, TLC

VARIABLES
    pc,            \* position of the driving client
    record,        \* codec client: the raw record handed to Encode
    base,          \* codec client: content of the sinks before the calls
    buf,           \* codec client: the bytes.Buffer Encode writes to
    decoded,       \* codec client: the bytes.Buffer Decode writes to
    err,           \* codec client: the error Decode returned
    prefix,        \* the prefix handed to CompareEncodedPrefix / FindRecordsWithPrefix
    cmp,           \* the (int, error) result of CompareEncodedPrefix
    starts,        \* the (bool, error) result of EncodedStartsWith
    inputList,     \* stream client: the raw records written so far
    gaps,          \* stream client: delimiter pairs written before each record and at the end
    stream,        \* stream client: the buffer holding the encoded list
    s_record,      \* Scanner.record
    s_list,        \* Scanner.list
    hasNext,       \* what the last Scanner.Next returned
    decodedList,   \* stream client: the records decoded from the scanner so far
    found,         \* the ([]byte, error) result of FindRecordsWithPrefix, as offsets
    rb_buf,        \* RecordBuilder.Buffer
    rb_start,      \* RecordBuilder.start
    rb_recordIndices, \* RecordBuilder.recordIndices
    sorted,        \* client of checkSortedRecordBuilder: Sort was the last call
                   \* that touched recordIndices
    sortCalled,    \* client of checkSortedRecordBuilder: Sort was called at least once
    dest,          \* builder client: the destination buffer of Encode / EncodeWithOffsets
    offsets,       \* builder client: what EncodeWithOffsets returned
    pending,       \* builder client: the bytes written since the last FinishRecord
    emitted,       \* builder client: the bytes that the last two calls of Encode
                   \* or EncodeWithOffsets since the last call that changed the
                   \* builder appended to their destination
    input,         \* bytes of any content handed to Decode, Scanner.Reset,
                   \* FindRecordsWithPrefix or IsStartOfRecord
    remaining,     \* running Encode / Decode call: the local slice not yet consumed
    runs,          \* running Encode call: each chunk written so far, its runSize
                   \* and the offset in the record where its run begins
    headers,       \* running Decode call: each header read so far, its bytes and
                   \* its offset in the input
    skipped,       \* running Encode call: the bytes each "record = record[2:]" left out
    panicked,      \* a slice or index expression of the running call was out of range
    returned,      \* what each Scanner.Next returned since Reset
    segments,      \* Scanner.Encoded() after each Next that returned true
    finder,        \* running FindRecordsWithPrefix call: its local variables
    examined,      \* running FindRecordsWithPrefix call: the records compared so far
    offset,        \* the offset handed to IsStartOfRecord
    isStart        \* what IsStartOfRecord returned

codecVars == <<record, base, buf, decoded, err, cmp, starts>>
streamVars == <<inputList, gaps, stream, s_record, s_list, hasNext, decodedList, found>>
reuseVars == <<pending, emitted>>
builderVars == <<rb_buf, rb_start, rb_recordIndices, sorted, sortCalled, dest, offsets,
                 reuseVars>>
callVars == <<input, remaining, runs, headers, skipped, panicked>>
traceVars == <<callVars, returned, segments, finder, examined, offset, isStart>>
vars == <<pc, prefix, codecVars, streamVars, builderVars, traceVars>>

----------------------------------------------------------------------------
(* Constants of stuffed.go *)

radix == 253
maxInitialRun == radix - 1
maxRemainingRun == (radix * radix) - 1
delimiterLength == 2
delimiter0 == 254
delimiter1 == 253

ByteRange == 256

(* Bounds of the model *)

\* longest record spelled out byte by byte
MaxLen == 2
\* how far below a saturated length (252, 64008, 252 + 64008) the long runs start
Slack == 2
\* most records in a list that is scanned
MaxListed == 2
\* most records in a sorted list that is searched, or in a builder
MaxRecords == 3
\* most delimiter pairs written in one place of a stream
MaxDelims == 2
\* longest input of any content spelled out byte by byte
MaxGarbled == 3
\* longest stream of any content spelled out byte by byte
MaxRaw == 5
\* most pieces between delimiter pairs in a longer stream of any content
MaxPieces == 3
\* most calls of Scanner.Next after the one that first returned false
MaxIdleCalls == 2
\* how far before the buffer and past its end the offsets tried go
OffsetMargin == 2
\* records finished in a builder that is encoded again and again
MaxFinished == 2
\* pieces written to such a builder since the last FinishRecord
MaxPending == 2

----------------------------------------------------------------------------
(* Byte slices and the functions of package bytes the code calls *)

Min(a, b) == IF a < b THEN a ELSE b

Slice(s, lo, hi) == SubSeq(s, lo + 1, hi)

\* byte(x): conversion of an int to a byte
ToByte(x) == x % ByteRange

DelimiterAt(s, i) == s[i] = delimiter0 /\ s[i + 1] = delimiter1

\* bytes.Index(s, []byte{delimiter0, delimiter1})
BytesIndex(s) ==
    IF \E i \in 1..(Len(s) - 1) : DelimiterAt(s, i)
    THEN (CHOOSE i \in 1..(Len(s) - 1) :
              DelimiterAt(s, i) /\ \A j \in 1..(i - 1) : ~DelimiterAt(s, j)) - 1
    ELSE -1

\* bytes.LastIndex(s, []byte{delimiter0, delimiter1})
BytesLastIndex(s) ==
    LET S == {i \in 1..(Len(s) - 1) : DelimiterAt(s, i)}
    IN  IF S = {} THEN -1 ELSE (CHOOSE i \in S : \A j \in S : j <= i) - 1

\* bytes.HasPrefix(s, []byte{delimiter0, delimiter1})
HasPrefix(s) == Len(s) >= delimiterLength /\ DelimiterAt(s, 1)

\* bytes.HasSuffix(s, []byte{delimiter0, delimiter1})
HasSuffix(s) == Len(s) >= delimiterLength /\ DelimiterAt(s, Len(s) - 1)

\* bytes.Compare(a, b): -1, 0 or +1, lexicographically
BytesCompare(a, b) ==
    LET n == Min(Len(a), Len(b))
    IN  IF \E i \in 1..n : a[i] # b[i]
        THEN LET d == CHOOSE i \in 1..n : a[i] # b[i] /\ \A j \in 1..(i - 1) : a[j] = b[j]
             IN  IF a[d] < b[d] THEN -1 ELSE 1
        ELSE IF Len(a) < Len(b) THEN -1
             ELSE IF Len(a) > Len(b) THEN 1 ELSE 0

----------------------------------------------------------------------------
(* stuffed.go: the single-record encoder and decoder *)

\* findDelimiter without the cut to the first maxRun bytes
findDelimiterUncut(rec, maxRun) ==
    LET run == IF Len(rec) < maxRun THEN Len(rec) ELSE maxRun
        result == BytesIndex(rec)
    IN  IF result = -1 THEN run ELSE result

\* findDelimiter without the search: the run is cut by length only
findDelimiterBlind(rec, maxRun) ==
    IF Len(rec) < maxRun THEN Len(rec) ELSE maxRun

\* findDelimiter returning the index after the first byte of the delimiter
findDelimiterPast(rec, maxRun) ==
    LET run == IF Len(rec) < maxRun THEN Len(rec) ELSE maxRun
        window == IF Len(rec) < maxRun THEN rec ELSE Slice(rec, 0, maxRun)
        result == BytesIndex(window)
    IN  IF result = -1 THEN run ELSE result + 1

\* findDelimiter looking one byte further than maxRun
findDelimiterAhead(rec, maxRun) ==
    LET run == IF Len(rec) < maxRun THEN Len(rec) ELSE maxRun
        window == IF Len(rec) < maxRun + 1 THEN rec ELSE Slice(rec, 0, maxRun + 1)
        result == BytesIndex(window)
    IN  IF result = -1 THEN run ELSE result

findDelimiter(rec, maxRun) ==
    LET run == IF Len(rec) < maxRun THEN Len(rec) ELSE maxRun
        window == IF Len(rec) < maxRun THEN rec ELSE Slice(rec, 0, maxRun)
        result == BytesIndex(window)
    IN  IF result = -1 THEN run ELSE result

\* the for loop of Encode: two-byte headers
RECURSIVE EncodeRemaining(_, _)
EncodeRemaining(rec, out) ==
    LET runSize == findDelimiter(rec, maxRemainingRun)
        out1 == out \o <<ToByte(runSize % radix), ToByte(runSize \div radix)>>
                    \o Slice(rec, 0, runSize)
        rest == Slice(rec, runSize, Len(rec))
    IN  IF runSize < maxRemainingRun
        THEN IF Len(rest) = 0 THEN out1
             ELSE EncodeRemaining(Slice(rest, 2, Len(rest)), out1)
        ELSE EncodeRemaining(rest, out1)

\* Encode(record, buf): the content of buf after the call
Encode(rec, out) ==
    LET runSize == findDelimiter(rec, maxInitialRun)
        out1 == out \o <<ToByte(runSize)>> \o Slice(rec, 0, runSize)
        rest == Slice(rec, runSize, Len(rec))
    IN  IF runSize < maxInitialRun
        THEN IF Len(rest) = 0 THEN out1
             ELSE EncodeRemaining(Slice(rest, 2, Len(rest)), out1)
        ELSE EncodeRemaining(rest, out1)

\* EncodeDelimiter(buf): the content of buf after the call
EncodeDelimiter(out) == out \o <<delimiter0, delimiter1>>

\* the for loop of Decode: two-byte headers
RECURSIVE DecodeRemaining(_, _)
DecodeRemaining(encoded, out) ==
    IF Len(encoded) < delimiterLength THEN [err |-> "EOF", record |-> out]
    ELSE
      LET runLength == encoded[1] + radix * encoded[2]
          enc1 == Slice(encoded, delimiterLength, Len(encoded))
      IN  IF runLength > maxRemainingRun THEN [err |-> "InvalidRunLength", record |-> out]
          ELSE IF Len(enc1) < runLength THEN [err |-> "EOF", record |-> out]
          ELSE
            LET out1 == out \o Slice(enc1, 0, runLength)
                enc2 == Slice(enc1, runLength, Len(enc1))
            IN  IF runLength < maxRemainingRun
                THEN IF Len(enc2) = 0 THEN [err |-> "nil", record |-> out1]
                     ELSE DecodeRemaining(enc2, EncodeDelimiter(out1))
                ELSE DecodeRemaining(enc2, out1)

\* Decode(encoded, record): the error returned and the content of record after the call
Decode(encoded, out) ==
    IF Len(encoded) < 1 THEN [err |-> "EOF", record |-> out]
    ELSE
      LET runLength == encoded[1]
          enc1 == Slice(encoded, 1, Len(encoded))
      IN  IF runLength > maxInitialRun THEN [err |-> "InvalidRunLength", record |-> out]
          ELSE IF Len(enc1) < runLength THEN [err |-> "EOF", record |-> out]
          ELSE
            LET out1 == out \o Slice(enc1, 0, runLength)
                enc2 == Slice(enc1, runLength, Len(enc1))
            IN  IF runLength < maxInitialRun
                THEN IF Len(enc2) = 0 THEN [err |-> "nil", record |-> out1]
                     ELSE DecodeRemaining(enc2, EncodeDelimiter(out1))
                ELSE DecodeRemaining(enc2, out1)

----------------------------------------------------------------------------
(* stuffed.go: Encode and Decode one step at a time.  A step is the code   *)
(* before the for loop, or one iteration of the loop.  Each step gives the *)
(* values of the locals after it and where control goes next; "panic" is   *)
(* Go's run-time panic on a slice or index expression out of range.        *)

\* the slice expression s[lo:hi] does not panic
InRange(s, lo, hi) == 0 <= lo /\ lo <= hi /\ hi <= Len(s)

\* ConsumeRun returning as soon as the record is used up, saturated chunk or not
ConsumeRunEager(rec, out, runSize, maxRun) ==
    IF ~InRange(rec, 0, runSize)
    THEN [next |-> "panic", record |-> rec, buf |-> out, runSize |-> runSize,
          skipped |-> <<>>]
    ELSE
      LET out1 == out \o Slice(rec, 0, runSize)
          rec1 == Slice(rec, runSize, Len(rec))
      IN  IF Len(rec1) = 0
          THEN [next |-> "encodeReturned", record |-> rec1, buf |-> out1,
                runSize |-> runSize, skipped |-> <<>>]
          ELSE IF runSize < maxRun
          THEN IF ~InRange(rec1, 2, Len(rec1))
               THEN [next |-> "panic", record |-> rec1, buf |-> out1,
                     runSize |-> runSize, skipped |-> <<>>]
               ELSE [next |-> "encodeLoop", record |-> Slice(rec1, 2, Len(rec1)),
                     buf |-> out1, runSize |-> runSize,
                     skipped |-> <<Slice(rec1, 0, 2)>>]
          ELSE [next |-> "encodeLoop", record |-> rec1, buf |-> out1,
                runSize |-> runSize, skipped |-> <<>>]

\* Encode after a header is written (lines 53-63 and 71-81): write the run,
\* drop it from record, and return or skip the two bytes that follow it
ConsumeRun(rec, out, runSize, maxRun) ==
    IF ~InRange(rec, 0, runSize)
    THEN [next |-> "panic", record |-> rec, buf |-> out, runSize |-> runSize,
          skipped |-> <<>>]
    ELSE
      LET out1 == out \o Slice(rec, 0, runSize)
          rec1 == Slice(rec, runSize, Len(rec))
      IN  IF runSize < maxRun
          THEN IF Len(rec1) = 0
               THEN [next |-> "encodeReturned", record |-> rec1, buf |-> out1,
                     runSize |-> runSize, skipped |-> <<>>]
               ELSE IF ~InRange(rec1, 2, Len(rec1))
               THEN [next |-> "panic", record |-> rec1, buf |-> out1,
                     runSize |-> runSize, skipped |-> <<>>]
               ELSE [next |-> "encodeLoop", record |-> Slice(rec1, 2, Len(rec1)),
                     buf |-> out1, runSize |-> runSize,
                     skipped |-> <<Slice(rec1, 0, 2)>>]
          ELSE [next |-> "encodeLoop", record |-> rec1, buf |-> out1,
                runSize |-> runSize, skipped |-> <<>>]

\* EncodeFirstStep writing the first header in two bytes, as the loop does
EncodeFirstStepWide(rec, out) ==
    LET runSize == findDelimiter(rec, maxInitialRun)
    IN  ConsumeRun(rec, out \o <<ToByte(runSize % radix), ToByte(runSize \div radix)>>,
                   runSize, maxInitialRun)

\* Encode up to the for loop (lines 51-63)
EncodeFirstStep(rec, out) ==
    LET runSize == findDelimiter(rec, maxInitialRun)
    IN  ConsumeRun(rec, out \o <<ToByte(runSize)>>, runSize, maxInitialRun)

\* one iteration of the for loop of Encode (lines 68-81)
EncodeLoopStep(rec, out) ==
    LET runSize == findDelimiter(rec, maxRemainingRun)
    IN  ConsumeRun(rec, out \o <<ToByte(runSize % radix), ToByte(runSize \div radix)>>,
                   runSize, maxRemainingRun)

\* TakeRun checking the length of the payload before the range of the header
TakeRunLengthFirst(encoded, out, runLength, maxRun, header) ==
    IF Len(encoded) < runLength
    THEN [next |-> "decodeReturned", err |-> "EOF", encoded |-> encoded,
          record |-> out, header |-> header]
    ELSE IF runLength > maxRun
    THEN [next |-> "decodeReturned", err |-> "InvalidRunLength", encoded |-> encoded,
          record |-> out, header |-> header]
    ELSE
      LET out1 == out \o Slice(encoded, 0, runLength)
          enc2 == Slice(encoded, runLength, Len(encoded))
      IN  IF runLength < maxRun
          THEN IF Len(enc2) = 0
               THEN [next |-> "decodeReturned", err |-> "nil", encoded |-> enc2,
                     record |-> out1, header |-> header]
               ELSE [next |-> "decodeLoop", err |-> "none", encoded |-> enc2,
                     record |-> EncodeDelimiter(out1), header |-> header]
          ELSE [next |-> "decodeLoop", err |-> "none", encoded |-> enc2,
                record |-> out1, header |-> header]

\* Decode after a header is read (lines 103-117 and 125-139): check the run
\* length, copy the run, and return or go round the loop
TakeRun(encoded, out, runLength, maxRun, header) ==
    IF runLength > maxRun
    THEN [next |-> "decodeReturned", err |-> "InvalidRunLength", encoded |-> encoded,
          record |-> out, header |-> header]
    ELSE IF Len(encoded) < runLength
    THEN [next |-> "decodeReturned", err |-> "EOF", encoded |-> encoded,
          record |-> out, header |-> header]
    ELSE IF ~InRange(encoded, 0, runLength)
    THEN [next |-> "panic", err |-> "none", encoded |-> encoded,
          record |-> out, header |-> header]
    ELSE
      LET out1 == out \o Slice(encoded, 0, runLength)
          enc2 == Slice(encoded, runLength, Len(encoded))
      IN  IF runLength < maxRun
          THEN IF Len(enc2) = 0
               THEN [next |-> "decodeReturned", err |-> "nil", encoded |-> enc2,
                     record |-> out1, header |-> header]
               ELSE [next |-> "decodeLoop", err |-> "none", encoded |-> enc2,
                     record |-> EncodeDelimiter(out1), header |-> header]
          ELSE [next |-> "decodeLoop", err |-> "none", encoded |-> enc2,
                record |-> out1, header |-> header]

\* lines 101-117: read the one-byte header and take the run
DecodeFirstBody(encoded, out) ==
    IF ~(0 < Len(encoded))
    THEN [next |-> "panic", err |-> "none", encoded |-> encoded, record |-> out,
          header |-> <<>>]
    ELSE TakeRun(Slice(encoded, 1, Len(encoded)), out, encoded[1], maxInitialRun,
                 <<encoded[1]>>)

\* Decode up to the for loop (lines 98-117)
DecodeFirstStep(encoded, out) ==
    IF Len(encoded) < 1
    THEN [next |-> "decodeReturned", err |-> "EOF", encoded |-> encoded,
          record |-> out, header |-> <<>>]
    ELSE DecodeFirstBody(encoded, out)

\* lines 123-139: read the two-byte header and take the run
DecodeLoopBody(encoded, out) ==
    IF ~(1 < Len(encoded))
    THEN [next |-> "panic", err |-> "none", encoded |-> encoded, record |-> out,
          header |-> <<>>]
    ELSE TakeRun(Slice(encoded, delimiterLength, Len(encoded)), out,
                 encoded[1] + radix * encoded[2], maxRemainingRun,
                 <<encoded[1], encoded[2]>>)

\* one iteration of the for loop of Decode with the length check one byte short
DecodeLoopStepShort(encoded, out) ==
    IF Len(encoded) < 1
    THEN [next |-> "decodeReturned", err |-> "EOF", encoded |-> encoded,
          record |-> out, header |-> <<>>]
    ELSE DecodeLoopBody(encoded, out)

\* one iteration of the for loop of Decode (lines 120-139)
DecodeLoopStep(encoded, out) ==
    IF Len(encoded) < delimiterLength
    THEN [next |-> "decodeReturned", err |-> "EOF", encoded |-> encoded,
          record |-> out, header |-> <<>>]
    ELSE DecodeLoopBody(encoded, out)

----------------------------------------------------------------------------
(* stuffed.go: finding delimiters *)

\* FindDelimiter looking for the last occurrence
FindDelimiterLast(s) == BytesLastIndex(s)

\* FindDelimiter(record)
FindDelimiter(s) == BytesIndex(s)

\* FindLastDelimiter(record)
FindLastDelimiter(s) == BytesLastIndex(s)

\* IsStartOfRecord(buffer, offset); Go's buffer[offset-2] is buffer[off - 1] here
IsStartOfRecord(buffer, off) ==
    IF off = 1 \/ off >= Len(buffer) THEN FALSE
    ELSE IF off >= 2 /\ (buffer[off - 1] # 254 \/ buffer[off] # 253) THEN FALSE
    ELSE TRUE

----------------------------------------------------------------------------
(* stuffed.go: Scanner.  Scanner.buf is reset by Reset and used by no    *)
(* method; it is left out.                                                 *)

\* the loop as an if: one leading delimiter pair skipped at most
SkipLeadingOnce(s) ==
    IF HasPrefix(s) THEN Slice(s, delimiterLength, Len(s)) ELSE s

\* the loop "for bytes.HasPrefix(s, delimiter) { s = s[delimiterLength:] }"
RECURSIVE SkipLeadingDelimiters(_)
SkipLeadingDelimiters(s) ==
    IF HasPrefix(s) THEN SkipLeadingDelimiters(Slice(s, delimiterLength, Len(s))) ELSE s

\* Scanner.Next: the fields after the call and the value returned
ScannerNextResult(rec, list) ==
    LET list1 == SkipLeadingDelimiters(list)
        index == FindDelimiter(list1)
    IN  IF Len(list1) = 0 THEN [record |-> rec, list |-> list1, ok |-> FALSE]
        ELSE IF index = -1 THEN [record |-> list1, list |-> <<>>, ok |-> TRUE]
        ELSE [record |-> Slice(list1, 0, index),
              list |-> Slice(list1, index, Len(list1)), ok |-> TRUE]

----------------------------------------------------------------------------
(* stuffed.go: comparing an encoded record with a prefix *)

\* checkPrefix comparing the chunk with the whole prefix
checkPrefixWhole(chunk, pfx) ==
    LET length == IF Len(chunk) > Len(pfx) THEN Len(pfx) ELSE Len(chunk)
    IN  <<BytesCompare(Slice(chunk, 0, length), pfx), length>>

\* checkPrefix with the operands of the comparison exchanged
checkPrefixSwapped(chunk, pfx) ==
    LET length == IF Len(chunk) > Len(pfx) THEN Len(pfx) ELSE Len(chunk)
    IN  <<BytesCompare(Slice(pfx, 0, length), Slice(chunk, 0, length)), length>>

checkPrefix(chunk, pfx) ==
    LET length == IF Len(chunk) > Len(pfx) THEN Len(pfx) ELSE Len(chunk)
    IN  <<BytesCompare(Slice(chunk, 0, length), Slice(pfx, 0, length)), length>>

\* CompareRemaining checking the length of the payload before the range of
\* the header
RECURSIVE CompareRemainingLengthFirst(_, _)
CompareRemainingLengthFirst(encoded, pfx) ==
    IF Len(pfx) = 0 THEN [cmp |-> 0, err |-> "nil"]
    ELSE IF Len(encoded) < delimiterLength THEN [cmp |-> 0, err |-> "EOF"]
    ELSE
      LET runLength == encoded[1] + radix * encoded[2]
          enc1 == Slice(encoded, delimiterLength, Len(encoded))
      IN  IF Len(enc1) < runLength THEN [cmp |-> 0, err |-> "EOF"]
          ELSE IF runLength > maxRemainingRun THEN [cmp |-> 0, err |-> "InvalidRunLength"]
          ELSE
            LET chunk == Slice(enc1, 0, runLength)
                enc2 == Slice(enc1, runLength, Len(enc1))
                c == checkPrefix(chunk, pfx)
                pfx1 == Slice(pfx, c[2], Len(pfx))
                d == checkPrefix(<<delimiter0, delimiter1>>, pfx1)
            IN  IF c[1] # 0 THEN [cmp |-> c[1], err |-> "nil"]
                ELSE IF runLength < maxRemainingRun
                THEN IF Len(pfx1) = 0 THEN [cmp |-> 0, err |-> "nil"]
                     ELSE IF Len(enc2) = 0 THEN [cmp |-> -1, err |-> "nil"]
                     ELSE IF d[1] # 0 THEN [cmp |-> d[1], err |-> "nil"]
                     ELSE CompareRemainingLengthFirst(enc2, Slice(pfx1, d[2], Len(pfx1)))
                ELSE CompareRemainingLengthFirst(enc2, pfx1)

\* the for loop of CompareEncodedPrefix: two-byte headers
RECURSIVE CompareRemaining(_, _)
CompareRemaining(encoded, pfx) ==
    IF Len(pfx) = 0 THEN [cmp |-> 0, err |-> "nil"]
    ELSE IF Len(encoded) < delimiterLength THEN [cmp |-> 0, err |-> "EOF"]
    ELSE
      LET runLength == encoded[1] + radix * encoded[2]
          enc1 == Slice(encoded, delimiterLength, Len(encoded))
      IN  IF runLength > maxRemainingRun THEN [cmp |-> 0, err |-> "InvalidRunLength"]
          ELSE IF Len(enc1) < runLength THEN [cmp |-> 0, err |-> "EOF"]
          ELSE
            LET chunk == Slice(enc1, 0, runLength)
                enc2 == Slice(enc1, runLength, Len(enc1))
                c == checkPrefix(chunk, pfx)
                pfx1 == Slice(pfx, c[2], Len(pfx))
                d == checkPrefix(<<delimiter0, delimiter1>>, pfx1)
            IN  IF c[1] # 0 THEN [cmp |-> c[1], err |-> "nil"]
                ELSE IF runLength < maxRemainingRun
                THEN IF Len(pfx1) = 0 THEN [cmp |-> 0, err |-> "nil"]
                     ELSE IF Len(enc2) = 0 THEN [cmp |-> -1, err |-> "nil"]
                     ELSE IF d[1] # 0 THEN [cmp |-> d[1], err |-> "nil"]
                     ELSE CompareRemaining(enc2, Slice(pfx1, d[2], Len(pfx1)))
                ELSE CompareRemaining(enc2, pfx1)

\* CompareEncodedPrefix(encoded, prefix): the (int, error) returned
CompareEncodedPrefix(encoded, pfx) ==
    IF Len(pfx) = 0 THEN [cmp |-> 0, err |-> "nil"]
    ELSE IF Len(encoded) < 1 THEN [cmp |-> 0, err |-> "EOF"]
    ELSE
      LET runLength == encoded[1]
          enc1 == Slice(encoded, 1, Len(encoded))
      IN  IF runLength > maxInitialRun THEN [cmp |-> 0, err |-> "InvalidRunLength"]
          ELSE IF Len(enc1) < runLength THEN [cmp |-> 0, err |-> "EOF"]
          ELSE
            LET chunk == Slice(enc1, 0, runLength)
                enc2 == Slice(enc1, runLength, Len(enc1))
                c == checkPrefix(chunk, pfx)
                pfx1 == Slice(pfx, c[2], Len(pfx))
                d == checkPrefix(<<delimiter0, delimiter1>>, pfx1)
            IN  IF c[1] # 0 THEN [cmp |-> c[1], err |-> "nil"]
                ELSE IF runLength < maxInitialRun
                THEN IF Len(pfx1) = 0 THEN [cmp |-> 0, err |-> "nil"]
                     ELSE IF Len(enc2) = 0 THEN [cmp |-> -1, err |-> "nil"]
                     ELSE IF d[1] # 0 THEN [cmp |-> d[1], err |-> "nil"]
                     ELSE CompareRemaining(enc2, Slice(pfx1, d[2], Len(pfx1)))
                ELSE CompareRemaining(enc2, pfx1)

\* EncodedStartsWith(encoded, prefix): the (bool, error) returned
EncodedStartsWith(encoded, pfx) ==
    LET r == CompareEncodedPrefix(encoded, pfx)
    IN  [matches |-> (r.cmp = 0), err |-> r.err]

----------------------------------------------------------------------------
(* stuffed.go: FindRecordsWithPrefix *)

\* the leading loop as an if: one delimiter pair skipped at most
TrimLeadingOnce(encodedList, min, max) ==
    IF HasPrefix(Slice(encodedList, min, max)) THEN min + delimiterLength ELSE min

\* "for bytes.HasPrefix(encodedList[min:max], delimiter) { min += delimiterLength }"
RECURSIVE TrimLeading(_, _, _)
TrimLeading(encodedList, min, max) ==
    IF HasPrefix(Slice(encodedList, min, max))
    THEN TrimLeading(encodedList, min + delimiterLength, max)
    ELSE min

\* "for bytes.HasSuffix(encodedList[min:max], delimiter) { max -= delimiterLength }"
RECURSIVE TrimTrailing(_, _, _)
TrimTrailing(encodedList, min, max) ==
    IF HasSuffix(Slice(encodedList, min, max))
    THEN TrimTrailing(encodedList, min, max - delimiterLength)
    ELSE max

\* the binary search "for max > min": the earliest match, or the error
RECURSIVE FindEarliestMatch(_, _, _, _, _, _)
FindEarliestMatch(encodedList, pfx, min, max, earliestMatchStart, earliestMatchEnd) ==
    IF ~(max > min)
    THEN [err |-> "nil", start |-> earliestMatchStart, end |-> earliestMatchEnd]
    ELSE
      LET mid == (max + min) \div 2
          index == FindLastDelimiter(Slice(encodedList, min, mid))
          recordStart == IF index # -1 THEN min + index + delimiterLength ELSE min
          index2 == FindDelimiter(Slice(encodedList, recordStart, max))
          recordEnd == IF index2 # -1 THEN recordStart + index2 ELSE max
          r == CompareEncodedPrefix(Slice(encodedList, recordStart, recordEnd), pfx)
      IN  IF r.err # "nil"
          THEN [err |-> r.err, start |-> earliestMatchStart, end |-> earliestMatchEnd]
          ELSE IF r.cmp = -1
          THEN FindEarliestMatch(encodedList, pfx,
                                 TrimLeading(encodedList, recordEnd, max), max,
                                 earliestMatchStart, earliestMatchEnd)
          ELSE IF r.cmp = 1
          THEN FindEarliestMatch(encodedList, pfx,
                                 min, TrimTrailing(encodedList, min, recordStart),
                                 earliestMatchStart, earliestMatchEnd)
          ELSE FindEarliestMatch(encodedList, pfx,
                                 min, TrimTrailing(encodedList, min, recordStart),
                                 recordStart, recordEnd)

\* the forward loop "for nextRecordStart < end": the value returned
RECURSIVE ExtendForward(_, _, _, _, _, _)
ExtendForward(encodedList, pfx, end, earliestMatchStart, previousRecordEnd, nextRecordStart) ==
    IF ~(nextRecordStart < end)
    THEN [err |-> "nil", isNil |-> FALSE, lo |-> earliestMatchStart, hi |-> previousRecordEnd]
    ELSE
      LET index == FindDelimiter(Slice(encodedList, nextRecordStart, Len(encodedList)))
          nextRecordEnd == IF index = -1 THEN end ELSE index + nextRecordStart
          m == EncodedStartsWith(Slice(encodedList, nextRecordStart, nextRecordEnd), pfx)
      IN  IF m.err # "nil" THEN [err |-> m.err, isNil |-> TRUE, lo |-> 0, hi |-> 0]
          ELSE IF ~m.matches
          THEN [err |-> "nil", isNil |-> FALSE,
                lo |-> earliestMatchStart, hi |-> previousRecordEnd]
          ELSE ExtendForward(encodedList, pfx, end, earliestMatchStart, nextRecordEnd,
                             TrimLeading(encodedList, nextRecordEnd, Len(encodedList)))

\* FindRecordsWithPrefix returning the earliest match alone
FindRecordsWithPrefixEarliest(encodedList, pfx) ==
    LET min0 == TrimLeading(encodedList, 0, Len(encodedList))
        max0 == TrimTrailing(encodedList, min0, Len(encodedList))
        e == FindEarliestMatch(encodedList, pfx, min0, max0, max0, min0)
    IN  IF e.err # "nil" THEN [err |-> e.err, isNil |-> TRUE, lo |-> 0, hi |-> 0]
        ELSE IF e.start >= e.end THEN [err |-> "nil", isNil |-> TRUE, lo |-> 0, hi |-> 0]
        ELSE [err |-> "nil", isNil |-> FALSE, lo |-> e.start, hi |-> e.end]

\* FindRecordsWithPrefix(encodedList, prefix): the error, and the sub-slice
\* encodedList[lo:hi] returned (a nil slice has isNil and no bytes)
FindRecordsWithPrefix(encodedList, pfx) ==
    LET min0 == TrimLeading(encodedList, 0, Len(encodedList))
        max0 == TrimTrailing(encodedList, min0, Len(encodedList))
        e == FindEarliestMatch(encodedList, pfx, min0, max0, max0, min0)
    IN  IF e.err # "nil" THEN [err |-> e.err, isNil |-> TRUE, lo |-> 0, hi |-> 0]
        ELSE IF e.start >= e.end THEN [err |-> "nil", isNil |-> TRUE, lo |-> 0, hi |-> 0]
        ELSE ExtendForward(encodedList, pfx, max0, e.start, e.end,
                           TrimLeading(encodedList, e.end, Len(encodedList)))

----------------------------------------------------------------------------
(* stuffed.go: FindRecordsWithPrefix one step at a time.  f holds the      *)
(* locals of the call; a step is one iteration of one of its two loops, or *)
(* the code that ends a loop.  Each step gives the locals after it, the    *)
(* record it compared with the prefix if it compared one, and the value    *)
(* returned if it returned.                                                *)

\* no value returned yet
None == [err |-> "none"]

\* the value returned with a nil slice
NilSlice(e) == [err |-> e, isNil |-> TRUE, lo |-> 0, hi |-> 0]

FinderPanic(f) ==
    [finder |-> [f EXCEPT !.pc = "panic"], examined |-> <<>>, found |-> None]

\* lines 336-347: the locals when the binary search begins
FindStart(encodedList) ==
    LET min0 == TrimLeading(encodedList, 0, Len(encodedList))
        max0 == TrimTrailing(encodedList, min0, Len(encodedList))
    IN  [pc |-> "search", min |-> min0, max |-> max0, end |-> max0,
         earliestMatchStart |-> max0, earliestMatchEnd |-> min0,
         previousRecordEnd |-> 0, nextRecordStart |-> 0]

\* SearchStep moving min to the start of a record that is too small, not to
\* its end
SearchStepFromStart(encodedList, pfx, f) ==
    IF ~(f.max > f.min)
    THEN IF f.earliestMatchStart >= f.earliestMatchEnd
         THEN [finder |-> [f EXCEPT !.pc = "returned"], examined |-> <<>>,
               found |-> NilSlice("nil")]
         ELSE IF ~InRange(encodedList, f.earliestMatchEnd, Len(encodedList))
         THEN FinderPanic(f)
         ELSE [finder |-> [f EXCEPT !.pc = "forward",
                                    !.previousRecordEnd = f.earliestMatchEnd,
                                    !.nextRecordStart =
                                        TrimLeading(encodedList, f.earliestMatchEnd,
                                                    Len(encodedList))],
               examined |-> <<>>, found |-> None]
    ELSE
      LET mid == (f.max + f.min) \div 2
          ok1 == InRange(encodedList, f.min, mid)
          index == FindLastDelimiter(Slice(encodedList, f.min, mid))
          recordStart == IF index # -1 THEN f.min + index + delimiterLength ELSE f.min
          ok2 == InRange(encodedList, recordStart, f.max)
          index2 == FindDelimiter(Slice(encodedList, recordStart, f.max))
          recordEnd == IF index2 # -1 THEN recordStart + index2 ELSE f.max
          ok3 == InRange(encodedList, recordStart, recordEnd)
          r == CompareEncodedPrefix(Slice(encodedList, recordStart, recordEnd), pfx)
          seen == <<[phase |-> "search", lo |-> recordStart, hi |-> recordEnd]>>
      IN  IF ~(ok1 /\ ok2 /\ ok3) THEN FinderPanic(f)
          ELSE IF r.err # "nil"
          THEN [finder |-> [f EXCEPT !.pc = "returned"], examined |-> seen,
                found |-> NilSlice(r.err)]
          ELSE IF r.cmp = -1
          THEN [finder |-> [f EXCEPT !.min = TrimLeading(encodedList, recordStart, f.max)],
                examined |-> seen, found |-> None]
          ELSE IF r.cmp = 1
          THEN [finder |-> [f EXCEPT !.max = TrimTrailing(encodedList, f.min, recordStart)],
                examined |-> seen, found |-> None]
          ELSE [finder |-> [f EXCEPT !.earliestMatchStart = recordStart,
                                     !.earliestMatchEnd = recordEnd,
                                     !.max = TrimTrailing(encodedList, f.min, recordStart)],
                examined |-> seen, found |-> None]

\* lines 350-409: one iteration of "for max > min", or, when the loop ends,
\* the return for no match or the setup of the forward loop
SearchStep(encodedList, pfx, f) ==
    IF ~(f.max > f.min)
    THEN IF f.earliestMatchStart >= f.earliestMatchEnd
         THEN [finder |-> [f EXCEPT !.pc = "returned"], examined |-> <<>>,
               found |-> NilSlice("nil")]
         ELSE IF ~InRange(encodedList, f.earliestMatchEnd, Len(encodedList))
         THEN FinderPanic(f)
         ELSE [finder |-> [f EXCEPT !.pc = "forward",
                                    !.previousRecordEnd = f.earliestMatchEnd,
                                    !.nextRecordStart =
                                        TrimLeading(encodedList, f.earliestMatchEnd,
                                                    Len(encodedList))],
               examined |-> <<>>, found |-> None]
    ELSE
      LET mid == (f.max + f.min) \div 2
          ok1 == InRange(encodedList, f.min, mid)
          index == FindLastDelimiter(Slice(encodedList, f.min, mid))
          recordStart == IF index # -1 THEN f.min + index + delimiterLength ELSE f.min
          ok2 == InRange(encodedList, recordStart, f.max)
          index2 == FindDelimiter(Slice(encodedList, recordStart, f.max))
          recordEnd == IF index2 # -1 THEN recordStart + index2 ELSE f.max
          ok3 == InRange(encodedList, recordStart, recordEnd)
          r == CompareEncodedPrefix(Slice(encodedList, recordStart, recordEnd), pfx)
          seen == <<[phase |-> "search", lo |-> recordStart, hi |-> recordEnd]>>
      IN  IF ~(ok1 /\ ok2 /\ ok3) THEN FinderPanic(f)
          ELSE IF r.err # "nil"
          THEN [finder |-> [f EXCEPT !.pc = "returned"], examined |-> seen,
                found |-> NilSlice(r.err)]
          ELSE IF r.cmp = -1
          THEN [finder |-> [f EXCEPT !.min = TrimLeading(encodedList, recordEnd, f.max)],
                examined |-> seen, found |-> None]
          ELSE IF r.cmp = 1
          THEN [finder |-> [f EXCEPT !.max = TrimTrailing(encodedList, f.min, recordStart)],
                examined |-> seen, found |-> None]
          ELSE [finder |-> [f EXCEPT !.earliestMatchStart = recordStart,
                                     !.earliestMatchEnd = recordEnd,
                                     !.max = TrimTrailing(encodedList, f.min, recordStart)],
                examined |-> seen, found |-> None]

\* ForwardStep taking a record whose comparison fails for one that does not match
ForwardStepLenient(encodedList, pfx, f) ==
    IF ~(f.nextRecordStart < f.end)
    THEN [finder |-> [f EXCEPT !.pc = "returned"], examined |-> <<>>,
          found |-> [err |-> "nil", isNil |-> FALSE,
                     lo |-> f.earliestMatchStart, hi |-> f.previousRecordEnd]]
    ELSE
      LET index == FindDelimiter(Slice(encodedList, f.nextRecordStart, Len(encodedList)))
          nextRecordEnd == IF index = -1 THEN f.end ELSE index + f.nextRecordStart
          m == EncodedStartsWith(Slice(encodedList, f.nextRecordStart, nextRecordEnd), pfx)
          seen == <<[phase |-> "forward", lo |-> f.nextRecordStart, hi |-> nextRecordEnd]>>
      IN  IF m.err # "nil" \/ ~m.matches
          THEN [finder |-> [f EXCEPT !.pc = "returned"], examined |-> seen,
                found |-> [err |-> "nil", isNil |-> FALSE,
                           lo |-> f.earliestMatchStart, hi |-> f.previousRecordEnd]]
          ELSE [finder |-> [f EXCEPT !.previousRecordEnd = nextRecordEnd,
                                     !.nextRecordStart =
                                         TrimLeading(encodedList, nextRecordEnd,
                                                     Len(encodedList))],
                examined |-> seen, found |-> None]

\* lines 412-442: one iteration of "for nextRecordStart < end", or the
\* return when the loop ends
ForwardStep(encodedList, pfx, f) ==
    IF ~(f.nextRecordStart < f.end)
    THEN IF ~InRange(encodedList, f.earliestMatchStart, f.previousRecordEnd)
         THEN FinderPanic(f)
         ELSE [finder |-> [f EXCEPT !.pc = "returned"], examined |-> <<>>,
               found |-> [err |-> "nil", isNil |-> FALSE,
                          lo |-> f.earliestMatchStart, hi |-> f.previousRecordEnd]]
    ELSE
      LET ok1 == InRange(encodedList, f.nextRecordStart, Len(encodedList))
          index == FindDelimiter(Slice(encodedList, f.nextRecordStart, Len(encodedList)))
          nextRecordEnd == IF index = -1 THEN f.end ELSE index + f.nextRecordStart
          ok2 == InRange(encodedList, f.nextRecordStart, nextRecordEnd)
          m == EncodedStartsWith(Slice(encodedList, f.nextRecordStart, nextRecordEnd), pfx)
          seen == <<[phase |-> "forward", lo |-> f.nextRecordStart, hi |-> nextRecordEnd]>>
      IN  IF ~(ok1 /\ ok2) THEN FinderPanic(f)
          ELSE IF m.err # "nil"
          THEN [finder |-> [f EXCEPT !.pc = "returned"], examined |-> seen,
                found |-> NilSlice(m.err)]
          ELSE IF ~m.matches
          THEN IF ~InRange(encodedList, f.earliestMatchStart, f.previousRecordEnd)
               THEN FinderPanic(f)
               ELSE [finder |-> [f EXCEPT !.pc = "returned"], examined |-> seen,
                     found |-> [err |-> "nil", isNil |-> FALSE,
                                lo |-> f.earliestMatchStart, hi |-> f.previousRecordEnd]]
          ELSE IF ~InRange(encodedList, nextRecordEnd, Len(encodedList))
          THEN FinderPanic(f)
          ELSE [finder |-> [f EXCEPT !.previousRecordEnd = nextRecordEnd,
                                     !.nextRecordStart =
                                         TrimLeading(encodedList, nextRecordEnd,
                                                     Len(encodedList))],
                examined |-> seen, found |-> None]

----------------------------------------------------------------------------
(* records.go: RecordBuilder *)

\* bytes.Buffer.Write on the embedded buffer
BuilderWrite(records, p) == records \o p

\* FinishRecord giving the new entry the start of the entry before it
FinishRecordOverlapping(indices, start, end) ==
    Append(indices, [originalIndex |-> Len(indices),
                     start |-> IF indices = <<>> THEN start
                               ELSE indices[Len(indices)].start,
                     end |-> end])

\* RecordBuilder.FinishRecord: recordIndices after the call (start becomes end)
FinishRecord(indices, start, end) ==
    Append(indices, [originalIndex |-> Len(indices), start |-> start, end |-> end])

\* RecordBuilder.Encode writing the delimiter before each record, not after
RECURSIVE RecordBuilderEncodeLeading(_, _, _)
RecordBuilderEncodeLeading(records, indices, out) ==
    IF indices = <<>> THEN out
    ELSE LET index == Head(indices)
             rec == Slice(records, index.start, index.end)
         IN  RecordBuilderEncodeLeading(records, Tail(indices),
                                        Encode(rec, EncodeDelimiter(out)))

\* RecordBuilder.Encode taking the last record of the index up to the end of
\* the buffer
RECURSIVE RecordBuilderEncodeOpen(_, _, _)
RecordBuilderEncodeOpen(records, indices, out) ==
    IF indices = <<>> THEN out
    ELSE LET index == Head(indices)
             end == IF Tail(indices) = <<>> THEN Len(records) ELSE index.end
             rec == Slice(records, index.start, end)
         IN  RecordBuilderEncodeOpen(records, Tail(indices),
                                     EncodeDelimiter(Encode(rec, out)))

\* RecordBuilder.Encode(dest): the content of dest after the call
RECURSIVE RecordBuilderEncode(_, _, _)
RecordBuilderEncode(records, indices, out) ==
    IF indices = <<>> THEN out
    ELSE LET index == Head(indices)
             rec == Slice(records, index.start, index.end)
         IN  RecordBuilderEncode(records, Tail(indices), EncodeDelimiter(Encode(rec, out)))

\* the loop of EncodeWithOffsets storing each offset at the position of the
\* entry in recordIndices
RECURSIVE EncodeWithOffsetsByPosition(_, _, _, _)
EncodeWithOffsetsByPosition(records, indices, out, recordOffsets) ==
    IF indices = <<>> THEN [dest |-> out, offsets |-> recordOffsets]
    ELSE LET index == Head(indices)
             rec == Slice(records, index.start, index.end)
         IN  EncodeWithOffsetsByPosition(records, Tail(indices),
                 EncodeDelimiter(Encode(rec, out)),
                 [recordOffsets EXCEPT
                     ![Len(recordOffsets) - Len(indices) + 1] = Len(out)])

\* the loop of EncodeWithOffsets
RECURSIVE EncodeWithOffsetsLoop(_, _, _, _)
EncodeWithOffsetsLoop(records, indices, out, recordOffsets) ==
    IF indices = <<>> THEN [dest |-> out, offsets |-> recordOffsets]
    ELSE LET index == Head(indices)
             rec == Slice(records, index.start, index.end)
         IN  EncodeWithOffsetsLoop(records, Tail(indices),
                 EncodeDelimiter(Encode(rec, out)),
                 [recordOffsets EXCEPT ![index.originalIndex + 1] = Len(out)])

\* RecordBuilder.EncodeWithOffsets(dest): dest after the call and the slice
\* returned (Go's recordOffsets[i] is offsets[i + 1] here)
EncodeWithOffsets(records, indices, out) ==
    EncodeWithOffsetsLoop(records, indices, out, [i \in 1..Len(indices) |-> 0])

\* Less with the comparison turned around
LessReversed(records, indices, i, j) ==
    LET indexI == indices[i + 1]
        bytesI == Slice(records, indexI.start, indexI.end)
        indexJ == indices[j + 1]
        bytesJ == Slice(records, indexJ.start, indexJ.end)
    IN  BytesCompare(bytesI, bytesJ) > 0

\* Less comparing the lengths of the records, not their bytes
LessByLength(records, indices, i, j) ==
    LET indexI == indices[i + 1]
        indexJ == indices[j + 1]
    IN  (indexI.end - indexI.start) < (indexJ.end - indexJ.start)

\* recordSorter.Less(i, j), i and j 0-based
Less(records, indices, i, j) ==
    LET indexI == indices[i + 1]
        bytesI == Slice(records, indexI.start, indexI.end)
        indexJ == indices[j + 1]
        bytesJ == Slice(records, indexJ.start, indexJ.end)
    IN  BytesCompare(bytesI, bytesJ) < 0

\* recordSorter.Swap(i, j), i and j 0-based
Swap(indices, i, j) ==
    [indices EXCEPT ![j + 1] = indices[i + 1], ![i + 1] = indices[j + 1]]

\* sort.Sort(&recordSorter{...}): an unstable sort.  Every outcome is a
\* rearrangement of recordIndices (sort.Sort only calls Swap) in which no
\* element is Less than an element before it.
Rearrangements(indices) ==
    {[i \in 1..Len(indices) |-> indices[p[i]]] :
        p \in {q \in [1..Len(indices) -> 1..Len(indices)] :
                  \A a, b \in 1..Len(indices) : a # b => q[a] # q[b]}}

SortOutcomes(records, indices) ==
    {r \in Rearrangements(indices) :
        \A i, j \in 0..(Len(r) - 1) : i < j => ~Less(records, r, j, i)}

----------------------------------------------------------------------------
(* The inputs the clients draw from *)

\* an ordinary byte and the two bytes of the delimiter
Alphabet == {97, delimiter1, delimiter0}

\* every byte sequence over Alphabet of length at most n
RECURSIVE ShortStrings(_)
ShortStrings(n) ==
    IF n = 0 THEN {<<>>}
    ELSE LET S == ShortStrings(n - 1)
         IN  S \cup {Append(s, b) : s \in {t \in S : Len(t) = n - 1}, b \in Alphabet}

\* strings.Repeat("a", k)
Run(k) == [i \in 1..k |-> 97]

\* what follows a long run: nothing, data, a delimiter, or the start of one
Tails == {<<>>, <<97>>, <<delimiter1>>, <<delimiter0>>,
          <<delimiter0, delimiter1>>, <<delimiter0, delimiter1, 97>>}

\* records whose runs end at, or up to Slack bytes before, a saturated length:
\* of the first chunk, of a later chunk after a delimiter, and of a later
\* chunk after a saturated first chunk
LongRecords ==
    UNION {{Run(maxInitialRun - d) \o t,
            <<delimiter0, delimiter1>> \o Run(maxRemainingRun - d) \o t,
            Run(maxInitialRun + maxRemainingRun - d) \o t} :
           d \in 0..Slack, t \in Tails}

Records == ShortStrings(MaxLen) \cup LongRecords

\* what a sink may hold before a call appends to it
Sinks == {<<>>, <<delimiter0>>}

\* the prefixes tried against a record: it cut short near its start and near
\* its end, each cut also with its last byte replaced, and it extended
Cuts(rec) == {k \in 0..Len(rec) : k <= MaxLen \/ k >= Len(rec) - MaxLen - 1}

PrefixBytes == Alphabet \cup {255}

PrefixesFor(rec) ==
    {Slice(rec, 0, k) : k \in Cuts(rec)}
    \cup {Slice(rec, 0, k) \o <<b>> : k \in Cuts(rec), b \in PrefixBytes}

----------------------------------------------------------------------------
(* A client of the codec: Encode a record, Decode what Encode wrote, and    *)
(* compare the encoded record with a prefix (TestRoundTrip,                *)
(* checkEncodedStartsWith).                                                *)

\* the bytes Encode appended to buf
Appended == Slice(buf, Len(base), Len(buf))

StreamIdle ==
    /\ inputList = <<>> /\ gaps = <<>> /\ stream = <<>>
    /\ s_record = <<>> /\ s_list = <<>> /\ hasNext = FALSE
    /\ decodedList = <<>> /\ found = None

ReuseIdle == pending = <<>> /\ emitted = <<>>

BuilderIdle ==
    /\ rb_buf = <<>> /\ rb_start = 0 /\ rb_recordIndices = <<>>
    /\ sorted = FALSE /\ sortCalled = FALSE /\ dest = <<>> /\ offsets = <<>>
    /\ ReuseIdle

NoFinder == [pc |-> "none"]

TraceIdle ==
    /\ input = <<>> /\ remaining = <<>> /\ runs = <<>> /\ headers = <<>>
    /\ skipped = <<>>
    /\ panicked = FALSE /\ returned = <<>> /\ segments = <<>>
    /\ finder = NoFinder /\ examined = <<>> /\ offset = 0 /\ isStart = FALSE

CodecIdle ==
    /\ record = <<>> /\ base = <<>> /\ buf = <<>> /\ decoded = <<>>
    /\ err = "none" /\ cmp = None /\ starts = None

Init ==
    /\ pc = "encode"
    /\ record \in Records
    /\ base \in Sinks
    /\ buf = base
    /\ decoded = base
    /\ err = "none"
    /\ prefix = <<>>
    /\ cmp = None
    /\ starts = None
    /\ StreamIdle
    /\ BuilderIdle
    /\ TraceIdle

DoEncode ==
    /\ pc = "encode"
    /\ buf' = Encode(record, buf)
    /\ pc' = "decode"
    /\ UNCHANGED <<traceVars, record, base, decoded, err, prefix, cmp, starts, streamVars, builderVars>>

DoDecode ==
    /\ pc = "decode"
    /\ LET r == Decode(Appended, decoded)
       IN  decoded' = r.record /\ err' = r.err
    /\ pc' = "compare"
    /\ UNCHANGED <<traceVars, record, base, buf, prefix, cmp, starts, streamVars, builderVars>>

DoCompare ==
    /\ pc = "compare"
    /\ \E p \in PrefixesFor(record) :
          /\ prefix' = p
          /\ cmp' = CompareEncodedPrefix(Appended, p)
    /\ pc' = "startsWith"
    /\ UNCHANGED <<traceVars, record, base, buf, decoded, err, starts, streamVars, builderVars>>

DoStartsWith ==
    /\ pc = "startsWith"
    /\ starts' = EncodedStartsWith(Appended, prefix)
    /\ pc' = "done"
    /\ UNCHANGED <<traceVars, record, base, buf, decoded, err, prefix, cmp, streamVars, builderVars>>

Next == DoEncode \/ DoDecode \/ DoCompare \/ DoStartsWith

Spec == Init /\ [][Next]_vars

----------------------------------------------------------------------------
(* Properties of the codec client *)

\* the number of delimiter pairs in s
CountDelimiters(s) ==
    Cardinality({i \in 1..(Len(s) - 1) : s[i] = 254 /\ s[i + 1] = 253})


Decoded == pc \in {"compare", "startsWith", "done"}

\* C1: round trip.  Decode applied to what Encode(R) appended returns no
\* error and appends exactly R to its sink.
C1_RoundTrip == Decoded => err = "nil" /\ decoded = base \o record

\* a round trip of a record longer than both saturated lengths together that
\* holds a delimiter
C1_Witness ==
    /\ Decoded
    /\ Len(record) > maxInitialRun + maxRemainingRun
    /\ BytesIndex(record) # -1
    /\ err = "nil"
    /\ decoded = base \o record

\* C2: delimiter-freedom.  The bytes Encode(R) appends hold no delimiter
\* pair, at any position.
C2_DelimiterFree ==
    pc # "encode" =>
        LET e == Appended
        IN  \A i \in 1..(Len(e) - 1) : ~(e[i] = 254 /\ e[i + 1] = 253)

\* the encoding of a record whose delimiter straddles the end of the
\* saturated first chunk
C2_Witness ==
    /\ pc = "decode"
    /\ Len(record) > maxInitialRun
    /\ record[maxInitialRun] = 254
    /\ record[maxInitialRun + 1] = 253
    /\ Appended[1] = maxInitialRun

\* R starts with P
StartsWith(rec, pfx) ==
    Len(pfx) <= Len(rec) /\ \A i \in 1..Len(pfx) : rec[i] = pfx[i]

\* C4: prefix consistency.  EncodedStartsWith(Encode(R), P) returns no error,
\* and true exactly when R starts with P.
C4_PrefixConsistency ==
    pc = "done" => starts.err = "nil" /\ (starts.matches <=> StartsWith(record, prefix))

\* a match of a prefix that ends between the two bytes of a delimiter of R
C4_Witness ==
    /\ pc = "done"
    /\ starts.matches
    /\ Len(prefix) >= 1
    /\ Len(record) > Len(prefix)
    /\ record[Len(prefix)] = 254
    /\ record[Len(prefix) + 1] = 253

\* the lexicographic order of R cut to the length of P against P
ExpectedOrder(rec, pfx) ==
    IF StartsWith(rec, pfx) THEN 0
    ELSE IF StartsWith(pfx, rec) THEN -1
    ELSE LET d == CHOOSE i \in 1..Len(pfx) :
                      rec[i] # pfx[i] /\ \A j \in 1..(i - 1) : rec[j] = pfx[j]
         IN  IF rec[d] < pfx[d] THEN -1 ELSE 1

Compared == pc \in {"startsWith", "done"}

\* C5: three-way comparison.  CompareEncodedPrefix(Encode(R), P) returns no
\* error and 0 when P is a prefix of R, -1 when R is a proper prefix of P or
\* is smaller at the first differing byte, +1 when it is larger there.
C5_ThreeWay ==
    Compared => cmp.err = "nil" /\ cmp.cmp = ExpectedOrder(record, prefix)

\* R ends on the saturated length of a later chunk and P is R and one more byte
C5_Witness ==
    /\ Compared
    /\ Len(record) = maxInitialRun + maxRemainingRun
    /\ Len(prefix) = Len(record) + 1
    /\ cmp.cmp = -1

----------------------------------------------------------------------------
(* Encode and Decode traced step by step: Encode on a record, Decode on    *)
(* what Encode wrote, and Decode on input of any content, well-formed or   *)
(* not (the shortRecords and invalidRecords of TestDecodeRecords).         *)

\* header bytes at and around the limits, which also serve as payload
GarbledBytes == {0, 1, 2, maxInitialRun, delimiter1, delimiter0, 255}

\* every byte sequence over GarbledBytes of length at most n
RECURSIVE ShortGarbled(_)
ShortGarbled(n) ==
    IF n = 0 THEN {<<>>}
    ELSE LET S == ShortGarbled(n - 1)
         IN  S \cup {Append(t, b) : t \in {u \in S : Len(u) = n - 1}, b \in GarbledBytes}

\* what follows a chunk in the long inputs
GarbledTails == ShortGarbled(2)

\* inputs with a saturated first chunk, a saturated later chunk, a later
\* chunk whose header has a low byte of 253 or more, or a chunk one byte
\* short of saturated
LongGarbled ==
    {<<maxInitialRun>> \o Run(maxInitialRun) \o t : t \in GarbledTails}
    \cup {<<maxInitialRun - 1>> \o Run(maxInitialRun - 1) \o t :
              t \in {<<>>, <<0, 0>>, <<1, 0, 2>>}}
    \cup {<<0, 251, 252>> \o Run(maxRemainingRun - 1) \o t :
              t \in {<<>>, <<0, 0>>}}
    \cup {<<0, 252, 252>> \o Run(maxRemainingRun - d) \o t :
              d \in 0..1, t \in {<<>>, <<0>>, <<0, 0>>, <<1, 0>>}}
    \cup {<<0, b, 0>> \o Run(b - d) \o t :
              b \in {delimiter1, delimiter0, 255}, d \in 0..1, t \in {<<>>, <<0, 0>>}}

Garbled == ShortGarbled(MaxGarbled) \cup LongGarbled

InitSteps ==
    /\ base \in Sinks
    /\ buf = base
    /\ decoded = base
    /\ err = "none"
    /\ prefix = <<>> /\ cmp = None /\ starts = None
    /\ StreamIdle
    /\ BuilderIdle
    /\ runs = <<>> /\ headers = <<>> /\ skipped = <<>> /\ panicked = FALSE
    /\ returned = <<>> /\ segments = <<>>
    /\ finder = NoFinder /\ examined = <<>> /\ offset = 0 /\ isStart = FALSE
    /\ \/ /\ pc = "encodeFirst"
          /\ record \in Records
          /\ remaining = record
          /\ input = <<>>
       \/ /\ pc = "decodeFirst"
          /\ record = <<>>
          /\ input \in Garbled
          /\ remaining = input

\* Encode up to its for loop
EncodeFirst ==
    /\ pc = "encodeFirst"
    /\ LET r == EncodeFirstStep(remaining, buf)
       IN  /\ remaining' = r.record
           /\ buf' = r.buf
           /\ runs' = Append(runs, [at |-> Len(record) - Len(remaining),
                                    size |-> r.runSize])
           /\ skipped' = skipped \o r.skipped
           /\ panicked' = (r.next = "panic")
           /\ pc' = IF r.next = "panic" THEN "encodePanic" ELSE r.next
    /\ UNCHANGED <<prefix, record, base, decoded, err, cmp, starts, streamVars,
                   builderVars, input, headers, returned, segments, finder, examined,
                   offset, isStart>>

\* one iteration of the for loop of Encode
EncodeLoop ==
    /\ pc = "encodeLoop"
    /\ LET r == EncodeLoopStep(remaining, buf)
       IN  /\ remaining' = r.record
           /\ buf' = r.buf
           /\ runs' = Append(runs, [at |-> Len(record) - Len(remaining),
                                    size |-> r.runSize])
           /\ skipped' = skipped \o r.skipped
           /\ panicked' = (r.next = "panic")
           /\ pc' = IF r.next = "panic" THEN "encodePanic" ELSE r.next
    /\ UNCHANGED <<prefix, record, base, decoded, err, cmp, starts, streamVars,
                   builderVars, input, headers, returned, segments, finder, examined,
                   offset, isStart>>

\* the call of Decode on what Encode appended
CallDecode ==
    /\ pc = "encodeReturned"
    /\ input' = Appended
    /\ remaining' = Appended
    /\ pc' = "decodeFirst"
    /\ UNCHANGED <<prefix, codecVars, streamVars, builderVars, runs, headers, skipped,
                   panicked, returned, segments, finder, examined, offset, isStart>>

\* Decode up to its for loop
DecodeFirst ==
    /\ pc = "decodeFirst"
    /\ LET r == DecodeFirstStep(remaining, decoded)
       IN  /\ remaining' = r.encoded
           /\ decoded' = r.record
           /\ err' = r.err
           /\ headers' = IF r.header = <<>> THEN headers
                          ELSE Append(headers, [at |-> Len(input) - Len(remaining),
                                                bytes |-> r.header])
           /\ panicked' = (r.next = "panic")
           /\ pc' = IF r.next = "panic" THEN "decodePanic" ELSE r.next
    /\ UNCHANGED <<prefix, record, base, buf, cmp, starts, streamVars, builderVars,
                   input, runs, skipped, returned, segments, finder, examined, offset,
                   isStart>>

\* one iteration of the for loop of Decode
DecodeLoop ==
    /\ pc = "decodeLoop"
    /\ LET r == DecodeLoopStep(remaining, decoded)
       IN  /\ remaining' = r.encoded
           /\ decoded' = r.record
           /\ err' = r.err
           /\ headers' = IF r.header = <<>> THEN headers
                          ELSE Append(headers, [at |-> Len(input) - Len(remaining),
                                                bytes |-> r.header])
           /\ panicked' = (r.next = "panic")
           /\ pc' = IF r.next = "panic" THEN "decodePanic" ELSE r.next
    /\ UNCHANGED <<prefix, record, base, buf, cmp, starts, streamVars, builderVars,
                   input, runs, skipped, returned, segments, finder, examined, offset,
                   isStart>>

\* Encode called on the record that Decode returned
Reencode ==
    /\ pc = "decodeReturned"
    /\ err = "nil"
    /\ record' = Slice(decoded, Len(base), Len(decoded))
    /\ buf' = Encode(record', base)
    /\ pc' = "reencoded"
    /\ UNCHANGED <<prefix, base, decoded, err, cmp, starts, streamVars, builderVars,
                   traceVars>>

NextSteps ==
    EncodeFirst \/ EncodeLoop \/ CallDecode \/ DecodeFirst \/ DecodeLoop \/ Reencode

SpecSteps == InitSteps /\ [][NextSteps]_vars

\* the steps of a call end where the whole call ends
StepsAgree ==
    /\ pc = "encodeReturned" => buf = Encode(record, base)
    /\ pc = "decodeReturned" =>
          [err |-> err, record |-> decoded] = Decode(input, base)

----------------------------------------------------------------------------
(* Properties of the steps of Encode *)

\* the header Encode writes for the i-th chunk when its run has size bytes
HeaderBytes(i, size) ==
    IF i = 1 THEN <<size>> ELSE <<size % 253, size \div 253>>

\* the chunks of the log from the i-th on, as bytes: each header and its run
RECURSIVE ChunkBytes(_)
ChunkBytes(i) ==
    IF i > Len(runs) THEN <<>>
    ELSE HeaderBytes(i, runs[i].size)
             \o Slice(record, runs[i].at, runs[i].at + runs[i].size)
             \o ChunkBytes(i + 1)

\* the largest run length the i-th header of a record may declare
HeaderLimit(i) == IF i = 1 THEN 252 ELSE 64008

\* C18: what Encode writes always ends with a terminal chunk.  When the
\* chunk that takes the last byte of the record, or of its last run, is
\* saturated (252 bytes in the first chunk, 64008 in a later one), Encode
\* writes one more chunk of length zero with the header 00 00.
C18_EndsTerminal ==
    pc = "encodeReturned" =>
        LET n == Len(runs)
        IN  /\ Appended = ChunkBytes(1)
            /\ runs[n].size < HeaderLimit(n)
            /\ \A i \in 1..n :
                  (/\ runs[i].size = HeaderLimit(i)
                   /\ runs[i].at + runs[i].size = Len(record))
                  => /\ n = i + 1
                     /\ runs[n].size = 0
                     /\ Slice(buf, Len(buf) - 2, Len(buf)) = <<0, 0>>

\* a record whose last run, behind a delimiter pair, fills a later chunk
\* exactly: chunks of 0, 64008 and 0 bytes
C18_Witness ==
    /\ pc = "encodeReturned"
    /\ Len(skipped) = 1
    /\ Len(runs) = 3
    /\ runs[2].size = 64008
    /\ runs[3].size = 0
    /\ Slice(buf, Len(buf) - 2, Len(buf)) = <<0, 0>>

\* Encode is running or has returned
Encoding == pc \in {"encodeFirst", "encodeLoop", "encodeReturned", "encodePanic"}

\* a step of Encode returns, or leaves less of the record to encode
EncodeProgress ==
    pc \in {"encodeFirst", "encodeLoop"} =>
        \/ pc' = "encodeReturned"
        \/ pc' = "encodeLoop" /\ Len(remaining') < Len(remaining)

\* C19: Encode cannot fail and always terminates.  No slice expression of it
\* is out of range, every step either returns or goes round the loop with
\* less input left than before, and the two bytes it skips behind a terminal
\* chunk are always the delimiter pair FE FD.
C19_EncodeTerminates ==
    /\ [](Encoding =>
             /\ ~panicked
             /\ pc # "encodePanic"
             /\ \A i \in 1..Len(skipped) : skipped[i] = <<254, 253>>)
    /\ [][EncodeProgress]_vars

\* an Encode that went through a saturated first chunk, a saturated later
\* chunk, an empty chunk and a skipped delimiter pair before it returned
C19_Witness ==
    /\ pc = "encodeReturned"
    /\ Len(runs) = 4
    /\ runs[2].size = 64008
    /\ skipped = <<(<<254, 253>>)>>
    /\ remaining = <<>>

\* the number of saturated chunks Encode wrote
Saturated == Cardinality({i \in 1..Len(runs) : runs[i].size = HeaderLimit(i)})

\* what Encode wrote is this many bytes longer than the record
Overhead == Len(Appended) - Len(record)

\* C21: Encode(R) is len(R) + 1 + 2*S bytes long, S the number of saturated
\* chunks written.  The overhead is at least 1 byte and at most
\* 3 + 2*floor(len(R)/64008) bytes, which is within one byte per 252 bytes
\* of the record plus 3.  Delimiter pairs in R add nothing: each pair
\* skipped stands for one chunk after the first, with its two-byte header.
C21_Overhead ==
    pc = "encodeReturned" =>
        /\ Overhead = 1 + 2 * Saturated
        /\ Overhead >= 1
        /\ Overhead <= 3 + 2 * (Len(record) \div maxRemainingRun)
        /\ 252 * Overhead <= Len(record) + 3 * 252
        /\ Len(runs) = 1 + Saturated + Len(skipped)

\* a record with a delimiter pair behind two saturated chunks: five bytes
\* of overhead, the largest the bound allows for its length
C21_Witness ==
    /\ pc = "encodeReturned"
    /\ Len(skipped) = 1
    /\ Saturated = 2
    /\ Overhead = 5
    /\ Overhead = 3 + 2 * (Len(record) \div maxRemainingRun)

----------------------------------------------------------------------------
(* Properties of Decode on input of any content *)

\* the run length a header declares: one byte, or two bytes in base 253,
\* low byte first
HeaderValue(h) ==
    IF Len(h.bytes) = 1 THEN h.bytes[1] ELSE h.bytes[1] + 253 * h.bytes[2]

\* the offset in the input at which the chunk of header h ends
ChunkEnd(h) == h.at + Len(h.bytes) + HeaderValue(h)

\* the headers Decode read are the bytes of the input at their offsets
HeadersOfInput ==
    \A i \in 1..Len(headers) :
        /\ headers[i].at = IF i = 1 THEN 0 ELSE ChunkEnd(headers[i - 1])
        /\ headers[i].bytes =
               Slice(input, headers[i].at, headers[i].at + (IF i = 1 THEN 1 ELSE 2))

\* C12: structural errors of Decode.  A first header byte above 252, or a
\* later two-byte header with b0 + 253*b1 above 64008 whatever payload
\* follows it, gives InvalidRunLength; an empty input, a header with a byte
\* missing, a payload shorter than its header declares, and an input that
\* ends right after a saturated chunk give EOF.
C12_StructuralErrors ==
    pc = "decodeReturned" =>
        LET n == Len(headers)
            last == headers[n]
            valid == HeaderValue(last) <= HeaderLimit(n)
        IN  /\ HeadersOfInput
            /\ input = <<>> => err = "EOF"
            /\ (input # <<>> /\ input[1] > 252) => err = "InvalidRunLength"
            /\ (n >= 2 /\ HeaderValue(last) > 64008) => err = "InvalidRunLength"
            /\ (n >= 1 /\ valid /\ ChunkEnd(last) = Len(input) - 1) => err = "EOF"
            /\ (n >= 1 /\ valid /\ ChunkEnd(last) > Len(input)) => err = "EOF"
            /\ (n >= 1 /\ valid /\ ChunkEnd(last) = Len(input)
                       /\ HeaderValue(last) = HeaderLimit(n)) => err = "EOF"

\* after a saturated first chunk, a header above 64008 with no payload behind
\* it: InvalidRunLength, not EOF
C12_Witness ==
    /\ pc = "decodeReturned"
    /\ Len(headers) = 2
    /\ headers[1].bytes = <<252>>
    /\ HeaderValue(headers[2]) > 64008
    /\ ChunkEnd(headers[2]) > Len(input)
    /\ err = "InvalidRunLength"

\* C13: reserved header bytes.  Decode returns InvalidRunLength whenever it
\* reaches a first header byte of 253 or more, or a later header whose low
\* (first) byte is 253 or more, whatever the high byte is.
C13_ReservedHeaderBytes ==
    pc = "decodeReturned" =>
        ((\E i \in 1..Len(headers) : headers[i].bytes[1] >= 253)
            => err = "InvalidRunLength")

\* every header Decode read is written as Encode writes headers, and no
\* chunk with a chunk behind it is one byte short of saturated
CanonicalChunks ==
    \A i \in 1..Len(headers) :
        /\ \A k \in 1..Len(headers[i].bytes) : headers[i].bytes[k] < 253
        /\ i < Len(headers) => HeaderValue(headers[i]) # HeaderLimit(i) - 1

\* C23 as stated: every input without a delimiter pair that Decode accepts
\* is what Encode writes for the record decoded from it.
C23_Canonical ==
    (pc = "reencoded" /\ CountDelimiters(input) = 0) => Appended = input

\* C23, amended: Encode writes one of the inputs that decode to a record,
\* not the only one.  What Encode writes for the record decoded from an
\* accepted input decodes to that record again and holds no delimiter pair;
\* it is the input itself, for an input without a delimiter pair, exactly
\* when every header byte of the input is below 253 and no chunk with a
\* chunk behind it has a length of 251 (first chunk) or 64007 (later chunk).
C23_CanonicalChoice ==
    pc = "reencoded" =>
        /\ Decode(Appended, base) = [err |-> "nil", record |-> base \o record]
        /\ CountDelimiters(Appended) = 0
        /\ Encode(record, <<>>) = Appended
        /\ CountDelimiters(input) = 0 => (Appended = input <=> CanonicalChunks)

\* an input of two chunks that Encode did not write, without a delimiter
\* pair and with headers as Encode writes them, that Encode writes for the
\* record decoded from it
C23_Witness ==
    /\ pc = "reencoded"
    /\ runs = <<>>
    /\ Len(headers) >= 2
    /\ CountDelimiters(input) = 0
    /\ CanonicalChunks
    /\ Appended = input

\* Decode is running or has returned
Decoding == pc \in {"decodeFirst", "decodeLoop", "decodeReturned", "decodePanic"}

\* a step of Decode returns, or leaves less of the input to decode
DecodeProgress ==
    pc \in {"decodeFirst", "decodeLoop"} =>
        \/ pc' = "decodeReturned"
        \/ pc' = "decodeLoop" /\ Len(remaining') < Len(remaining)

\* C20: the two error kinds are exhaustive for Decode.  On every input,
\* well-formed or not, with or without delimiter pairs in it, no index or
\* slice expression of Decode is outside the input, every step either
\* returns or goes round the loop with less input left than before, and what
\* it returns is one of nil, EOF and InvalidRunLength.
C20_DecodeTotal ==
    /\ [](Decoding =>
             /\ ~panicked
             /\ pc # "decodePanic"
             /\ Len(remaining) <= Len(input)
             /\ \A i \in 1..Len(headers) :
                   headers[i].at >= 0
                   /\ headers[i].at + Len(headers[i].bytes) <= Len(input)
             /\ pc = "decodeReturned" => err \in {"nil", "EOF", "InvalidRunLength"}
             /\ pc # "decodeReturned" => err = "none")
    /\ [][DecodeProgress]_vars

\* an input that Encode did not write, with a delimiter pair in it, that
\* Decode went round its loop for and then rejected
C20_Witness ==
    /\ pc = "decodeReturned"
    /\ record = <<>> /\ runs = <<>>
    /\ CountDelimiters(input) > 0
    /\ Len(headers) >= 2
    /\ err = "InvalidRunLength"

----------------------------------------------------------------------------
(* Decode and CompareEncodedPrefix called on the same input, of any       *)
(* content: the input is decoded, and then compared with a prefix of what *)
(* Decode wrote before it returned, or with such a prefix and one more    *)
(* byte.                                                                   *)

InitAgree ==
    /\ pc = "given"
    /\ input \in Garbled
    /\ prefix = <<>>
    /\ CodecIdle
    /\ StreamIdle
    /\ BuilderIdle
    /\ remaining = <<>> /\ runs = <<>> /\ headers = <<>> /\ skipped = <<>>
    /\ panicked = FALSE /\ returned = <<>> /\ segments = <<>>
    /\ finder = NoFinder /\ examined = <<>> /\ offset = 0 /\ isStart = FALSE

\* err := Decode(input, &decoded)
DecodeInput ==
    /\ pc = "given"
    /\ LET r == Decode(input, <<>>)
       IN  decoded' = r.record /\ err' = r.err
    /\ pc' = "decoded"
    /\ UNCHANGED <<prefix, record, base, buf, cmp, starts, streamVars, builderVars,
                   traceVars>>

\* cmp, err := CompareEncodedPrefix(input, p)
CompareInput ==
    /\ pc = "decoded"
    /\ \E p \in PrefixesFor(decoded) :
          /\ prefix' = p
          /\ cmp' = CompareEncodedPrefix(input, p)
    /\ pc' = "agreed"
    /\ UNCHANGED <<record, base, buf, decoded, err, starts, streamVars, builderVars,
                   traceVars>>

NextAgree == DecodeInput \/ CompareInput

SpecAgree == InitAgree /\ [][NextAgree]_vars

\* C24: CompareEncodedPrefix agrees with Decode on every input.  An error
\* that CompareEncodedPrefix returns is the error that Decode returns for the
\* input; and when Decode returns no error and the record D,
\* CompareEncodedPrefix returns no error, and the order of D cut to the
\* length of the prefix against the prefix.
C24_CompareAgrees ==
    pc = "agreed" =>
        /\ cmp.err # "nil" => err = cmp.err
        /\ err = "nil" =>
              cmp.err = "nil" /\ cmp.cmp = ExpectedOrder(decoded, prefix)

\* an input with a header above 64008 behind two chunks that the prefix
\* matches: both calls return InvalidRunLength
C24_Witness ==
    /\ pc = "agreed"
    /\ Len(decoded) > delimiterLength
    /\ Len(prefix) > Len(decoded)
    /\ err = "InvalidRunLength"
    /\ cmp.err = "InvalidRunLength"

----------------------------------------------------------------------------
(* A client of the Scanner: write a list of records with delimiter pairs   *)
(* before each record and after the last, then iterate a Scanner over the  *)
(* buffer and decode each record (checkListRoundTrip).                     *)

\* the records of a list: the decoded strings of shortTestCases with "abc"
\* shortened to "a", and records that end in the first byte of a delimiter
ListRecords ==
    {<<>>, <<97>>, <<97, 97>>, <<97, delimiter0>>,
     <<97, delimiter0, delimiter1>>, <<97, delimiter0, delimiter1, 97>>,
     <<delimiter0>>, <<delimiter0, delimiter1>>, <<delimiter0, delimiter1, 97>>}

\* the prefixes looked for: each record of the pool, and prefixes of none
FindPrefixes == ListRecords \cup {<<97, delimiter1>>, <<delimiter1>>, <<255>>}

\* k calls of EncodeDelimiter
RECURSIVE EncodeDelimiters(_, _)
EncodeDelimiters(out, k) ==
    IF k = 0 THEN out ELSE EncodeDelimiters(EncodeDelimiter(out), k - 1)

\* sort.Strings has put the list in ascending order
IsSorted(list) ==
    \A i \in 1..(Len(list) - 1) : BytesCompare(list[i], list[i + 1]) <= 0

\* parseStrings(encoded): the records a Scanner over encoded decodes, or the
\* first error
RECURSIVE ParseLoop(_, _, _)
ParseLoop(rec, list, acc) ==
    LET n == ScannerNextResult(rec, list)
        d == Decode(n.record, <<>>)
    IN  IF ~n.ok THEN [err |-> "nil", list |-> acc]
        ELSE IF d.err # "nil" THEN [err |-> d.err, list |-> <<>>]
        ELSE ParseLoop(n.record, n.list, Append(acc, d.record))

ParseStrings(encoded) == ParseLoop(<<>>, encoded, <<>>)

InitStream ==
    /\ pc = "write"
    /\ prefix = <<>>
    /\ CodecIdle
    /\ StreamIdle
    /\ BuilderIdle
    /\ TraceIdle

\* stuffed.EncodeDelimiter(&buf) one or more times, then stuffed.Encode(input, &buf)
WriteRecord ==
    /\ pc = "write"
    /\ Len(inputList) < MaxListed
    /\ \E r \in ListRecords, k \in 1..MaxDelims :
          /\ stream' = Encode(r, EncodeDelimiters(stream, k))
          /\ inputList' = Append(inputList, r)
          /\ gaps' = Append(gaps, k)
    /\ UNCHANGED <<traceVars, pc, prefix, codecVars, s_record, s_list, hasNext, decodedList, found,
                   builderVars>>

\* the delimiters after the last record
FinishStream ==
    /\ pc = "write"
    /\ \E k \in 1..MaxDelims :
          /\ stream' = EncodeDelimiters(stream, k)
          /\ gaps' = Append(gaps, k)
    /\ pc' = "written"
    /\ UNCHANGED <<traceVars, prefix, codecVars, inputList, s_record, s_list, hasNext, decodedList,
                   found, builderVars>>

\* Scanner.Reset(encodedList)
ScannerReset ==
    /\ pc = "written"
    /\ s_record' = <<>>
    /\ s_list' = stream
    /\ pc' = "scan"
    /\ UNCHANGED <<traceVars, prefix, codecVars, inputList, gaps, stream, hasNext, decodedList, found,
                   builderVars>>

\* Scanner.Next()
ScannerNext ==
    /\ pc = "scan"
    /\ LET n == ScannerNextResult(s_record, s_list)
       IN  /\ s_record' = n.record
           /\ s_list' = n.list
           /\ hasNext' = n.ok
           /\ pc' = IF n.ok THEN "decode" ELSE "scanned"
    /\ UNCHANGED <<traceVars, prefix, codecVars, inputList, gaps, stream, decodedList, found,
                   builderVars>>

\* Scanner.Decode(&decoded) into an empty buffer, and the append to decodedList
ScannerDecode ==
    /\ pc = "decode"
    /\ LET d == Decode(s_record, <<>>)
       IN  /\ err' = d.err
           /\ decodedList' = IF d.err = "nil" THEN Append(decodedList, d.record)
                             ELSE decodedList
           /\ pc' = IF d.err = "nil" THEN "scan" ELSE "failed"
    /\ UNCHANGED <<traceVars, prefix, record, base, buf, decoded, cmp, starts, inputList, gaps, stream,
                   s_record, s_list, hasNext, found, builderVars>>

NextStream ==
    WriteRecord \/ FinishStream \/ ScannerReset \/ ScannerNext \/ ScannerDecode

SpecStream == InitStream /\ [][NextStream]_vars

----------------------------------------------------------------------------
(* Clients of a buffer of any content: IsStartOfRecord at an offset, and a *)
(* Scanner that is Reset on the buffer and asked for Next again and again  *)
(* (ExampleScanner).                                                       *)

\* what stands between delimiter pairs in the longer streams: encoded
\* records, a record cut short, and a record with a header out of range
RawPieces == {<<0>>, <<1, 97>>, <<2, 97, 97>>, <<1>>, <<delimiter1>>}

\* the delimiter pairs behind a piece
RawGaps == {EncodeDelimiter(<<>>), EncodeDelimiter(EncodeDelimiter(<<>>))}

\* streams of exactly n pieces, each with delimiter pairs behind it, with or
\* without a delimiter pair in front
RECURSIVE PieceStreamsOf(_)
PieceStreamsOf(n) ==
    IF n = 0 THEN {<<>>, EncodeDelimiter(<<>>)}
    ELSE {t \o q \o g : t \in PieceStreamsOf(n - 1), q \in RawPieces, g \in RawGaps}

PieceStreams == UNION {PieceStreamsOf(n) : n \in 0..MaxPieces}

RawInputs == ShortStrings(MaxRaw) \cup PieceStreams

InitRaw ==
    /\ pc = "raw"
    /\ input \in RawInputs
    /\ prefix = <<>>
    /\ CodecIdle
    /\ StreamIdle
    /\ BuilderIdle
    /\ remaining = <<>> /\ runs = <<>> /\ headers = <<>> /\ skipped = <<>>
    /\ panicked = FALSE /\ returned = <<>> /\ segments = <<>>
    /\ finder = NoFinder /\ examined = <<>> /\ offset = 0 /\ isStart = FALSE

\* stuffed.IsStartOfRecord(buffer, offset)
DoIsStartOfRecord ==
    /\ pc = "raw"
    /\ \E o \in (0 - OffsetMargin)..(Len(input) + OffsetMargin) :
          /\ offset' = o
          /\ isStart' = IsStartOfRecord(input, o)
    /\ pc' = "checked"
    /\ UNCHANGED <<prefix, codecVars, streamVars, builderVars, callVars, returned,
                   segments, finder, examined>>

\* s.Reset(encoded), at first or over again
RawReset ==
    /\ pc \in {"raw", "scanning"}
    /\ s_record' = <<>>
    /\ s_list' = input
    /\ returned' = <<>>
    /\ segments' = <<>>
    /\ pc' = "scanning"
    /\ UNCHANGED <<prefix, codecVars, inputList, gaps, stream, hasNext, decodedList, found,
                   builderVars, callVars, finder, examined, offset, isStart>>

\* how many calls of Next returned false
IdleCalls == Cardinality({i \in 1..Len(returned) : ~returned[i]})

\* s.Next(), and s.Encoded() when it returned true
RawNext ==
    /\ pc = "scanning"
    /\ IdleCalls <= MaxIdleCalls
    /\ LET n == ScannerNextResult(s_record, s_list)
       IN  /\ s_record' = n.record
           /\ s_list' = n.list
           /\ hasNext' = n.ok
           /\ returned' = Append(returned, n.ok)
           /\ segments' = IF n.ok THEN Append(segments, n.record) ELSE segments
    /\ UNCHANGED <<pc, prefix, codecVars, inputList, gaps, stream, decodedList, found,
                   builderVars, callVars, finder, examined, offset, isStart>>

\* the prefixes looked for in a stream of any content
RawPrefixes == {<<>>, <<97>>, <<97, 97>>}

\* stuffed.FindRecordsWithPrefix(encodedList, prefix) up to its first loop
FindCall ==
    /\ pc = "raw"
    /\ \E q \in RawPrefixes : prefix' = q
    /\ finder' = FindStart(input)
    /\ examined' = <<>>
    /\ pc' = "finding"
    /\ UNCHANGED <<codecVars, streamVars, builderVars, callVars, returned, segments,
                   offset, isStart>>

\* a step of the binary search of FindRecordsWithPrefix
FindSearch ==
    /\ pc = "finding"
    /\ finder.pc = "search"
    /\ LET r == SearchStep(input, prefix, finder)
       IN  /\ finder' = r.finder
           /\ examined' = examined \o r.examined
           /\ found' = r.found
           /\ panicked' = (r.finder.pc = "panic")
           /\ pc' = IF r.finder.pc \in {"returned", "panic"} THEN "findReturned"
                     ELSE "finding"
    /\ UNCHANGED <<prefix, codecVars, inputList, gaps, stream, s_record, s_list, hasNext,
                   decodedList, builderVars, input, remaining, runs, headers, skipped,
                   returned, segments, offset, isStart>>

\* a step of the forward loop of FindRecordsWithPrefix
FindForward ==
    /\ pc = "finding"
    /\ finder.pc = "forward"
    /\ LET r == ForwardStep(input, prefix, finder)
       IN  /\ finder' = r.finder
           /\ examined' = examined \o r.examined
           /\ found' = r.found
           /\ panicked' = (r.finder.pc = "panic")
           /\ pc' = IF r.finder.pc \in {"returned", "panic"} THEN "findReturned"
                     ELSE "finding"
    /\ UNCHANGED <<prefix, codecVars, inputList, gaps, stream, s_record, s_list, hasNext,
                   decodedList, builderVars, input, remaining, runs, headers, skipped,
                   returned, segments, offset, isStart>>

NextRaw ==
    DoIsStartOfRecord \/ RawReset \/ RawNext \/ FindCall \/ FindSearch \/ FindForward

SpecRaw == InitRaw /\ [][NextRaw]_vars

\* the offsets of the first delimiter pair of s at or after offset from,
\* or the length of s when there is none
NextPair(s, from) ==
    LET P == {i \in from..(Len(s) - 2) : s[i + 1] = 254 /\ s[i + 2] = 253}
    IN  IF P = {} THEN Len(s) ELSE CHOOSE i \in P : \A j \in P : i <= j

\* the non-empty segments between the delimiter pairs of s, from offset from
\* on, each as the offsets where it begins and ends
RECURSIVE SplitFrom(_, _)
SplitFrom(s, from) ==
    IF from >= Len(s) THEN <<>>
    ELSE LET to == NextPair(s, from)
         IN  IF to = from THEN SplitFrom(s, from + 2)
             ELSE <<[lo |-> from, hi |-> to]>> \o SplitFrom(s, to)

\* C14: after Reset, the calls of Next return true once for each non-empty
\* segment between the delimiter pairs of the stream, in order, Encoded being
\* that segment and the unconsumed tail beginning at the delimiter behind
\* it; leading, trailing and repeated pairs give no record; every call after
\* the last segment returns false.
C14_ScannerIteration ==
    pc = "scanning" =>
        LET segs == SplitFrom(input, 0)
            n == Len(returned)
            k == Min(n, Len(segs))
        IN  /\ \A i \in 1..n : returned[i] = (i <= Len(segs))
            /\ Len(segments) = k
            /\ \A i \in 1..k :
                  /\ segments[i] = Slice(input, segs[i].lo, segs[i].hi)
                  /\ segments[i] # <<>>
                  /\ CountDelimiters(segments[i]) = 0
            /\ (n >= 1 /\ n <= Len(segs)) =>
                  /\ s_record = segments[n]
                  /\ s_list = Slice(input, segs[n].hi, Len(input))
            /\ (n >= 1 /\ ~returned[n]) => ~hasNext

\* two records found between leading, repeated and trailing delimiter pairs,
\* and Next called after it first returned false
C14_Witness ==
    /\ pc = "scanning"
    /\ HasPrefix(input)
    /\ HasSuffix(input)
    /\ CountDelimiters(input) > 3
    /\ Len(segments) = 2
    /\ returned = <<TRUE, TRUE, FALSE, FALSE>>

\* the steps of FindRecordsWithPrefix end where the whole call ends
FinderStepsAgree ==
    pc = "findReturned" => ~panicked /\ found = FindRecordsWithPrefix(input, prefix)

\* the error of comparing the i-th record examined with the prefix
ExaminedErr(i) ==
    CompareEncodedPrefix(Slice(input, examined[i].lo, examined[i].hi), prefix).err

\* C17: FindRecordsWithPrefix propagates structural errors unchanged.  When
\* the comparison of a record it examines, in the binary search or in the
\* forward loop, fails with EOF or InvalidRunLength, it examines no further
\* record and returns that error and no sub-slice; it returns no error
\* when no comparison failed.
C17_ErrorsPropagate ==
    /\ pc = "finding" => \A i \in 1..Len(examined) : ExaminedErr(i) = "nil"
    /\ pc = "findReturned" =>
          /\ \A i \in 1..(Len(examined) - 1) : ExaminedErr(i) = "nil"
          /\ IF examined # <<>> /\ ExaminedErr(Len(examined)) # "nil"
             THEN /\ ExaminedErr(Len(examined)) \in {"EOF", "InvalidRunLength"}
                  /\ found = NilSlice(ExaminedErr(Len(examined)))
             ELSE found.err = "nil"

\* a header out of range met in the forward loop, behind a record that
\* matched, and reported as InvalidRunLength
C17_Witness ==
    /\ pc = "findReturned"
    /\ Len(examined) >= 2
    /\ examined[Len(examined)].phase = "forward"
    /\ found = NilSlice("InvalidRunLength")

\* the locals of FindRecordsWithPrefix are offsets in the stream, in order
LocalsInRange ==
    /\ 0 <= finder.min /\ finder.min <= finder.max /\ finder.max <= finder.end
    /\ finder.end <= Len(input)
    /\ 0 <= finder.earliestMatchStart /\ finder.earliestMatchStart <= Len(input)
    /\ 0 <= finder.earliestMatchEnd /\ finder.earliestMatchEnd <= Len(input)
    /\ finder.pc = "forward" =>
          /\ finder.earliestMatchStart < finder.earliestMatchEnd
          /\ finder.earliestMatchEnd <= finder.previousRecordEnd
          /\ finder.previousRecordEnd <= finder.nextRecordStart
          /\ finder.nextRecordStart <= Len(input)

\* a step of the binary search that stays in it makes [min, max) smaller,
\* and a step of the forward loop that stays in it moves nextRecordStart on
FinderProgress ==
    /\ (pc = "finding" /\ finder.pc = "search" /\ finder'.pc = "search") =>
          /\ finder.min <= finder'.min
          /\ finder'.max <= finder.max
          /\ finder'.max - finder'.min < finder.max - finder.min
    /\ (pc = "finding" /\ finder.pc = "forward" /\ finder'.pc = "forward") =>
          finder'.nextRecordStart > finder.nextRecordStart

\* C25: FindRecordsWithPrefix terminates and stays within the stream on
\* every input, sorted or not, well-formed or not.  Each iteration of the
\* binary search makes [min, max) strictly smaller and keeps
\* 0 <= min <= max <= len(stream); each iteration of the forward loop moves
\* nextRecordStart strictly on; no slice expression is out of range.
C25_FinderTerminates ==
    /\ [](pc \in {"finding", "findReturned"} =>
             /\ ~panicked
             /\ finder.pc # "panic"
             /\ LocalsInRange
             /\ \A i \in 1..Len(examined) :
                   /\ 0 <= examined[i].lo
                   /\ examined[i].lo <= examined[i].hi
                   /\ examined[i].hi <= Len(input))
    /\ [][FinderProgress]_vars

\* a call on a stream that holds a record that cannot be decoded, that went
\* twice round the binary search and then round the forward loop
C25_Witness ==
    /\ pc = "finding"
    /\ finder.pc = "forward"
    /\ Len(examined) >= 3
    /\ examined[2].phase = "search"
    /\ examined[3].phase = "forward"
    /\ ParseStrings(input).err # "nil"

\* C15: IsStartOfRecord(buffer, offset) is true exactly when offset is less
\* than the length of the buffer and either offset is 0 or the two bytes just
\* before offset are FE FD, for every buffer and every integer offset.
C15_IsStartOfRecord ==
    pc = "checked" =>
        (isStart <=>
            /\ offset < Len(input)
            /\ \/ offset = 0
               \/ /\ offset >= 2
                  /\ input[offset - 1] = 254
                  /\ input[offset] = 253)

----------------------------------------------------------------------------
(* A client of FindRecordsWithPrefix: sort the records, write them with    *)
(* delimiter pairs before each record and after the last, and look for the *)
(* records with a prefix (checkFindRecordsWithPrefix).                     *)

InitFind ==
    /\ pc = "writeSorted"
    /\ prefix = <<>>
    /\ CodecIdle
    /\ StreamIdle
    /\ BuilderIdle
    /\ TraceIdle

\* the loop body over the sorted inputList: EncodeDelimiter one or more
\* times, then Encode
WriteSorted ==
    /\ pc = "writeSorted"
    /\ Len(inputList) < MaxRecords
    /\ \E r \in ListRecords, k \in 1..MaxDelims :
          /\ IsSorted(Append(inputList, r))
          /\ stream' = Encode(r, EncodeDelimiters(stream, k))
          /\ inputList' = Append(inputList, r)
          /\ gaps' = Append(gaps, k)
    /\ UNCHANGED <<traceVars, pc, prefix, codecVars, s_record, s_list, hasNext, decodedList, found,
                   builderVars>>

\* the delimiters after the last record
FinishSorted ==
    /\ pc = "writeSorted"
    /\ \E k \in 1..MaxDelims :
          /\ stream' = EncodeDelimiters(stream, k)
          /\ gaps' = Append(gaps, k)
    /\ pc' = "find"
    /\ UNCHANGED <<traceVars, prefix, codecVars, inputList, s_record, s_list, hasNext, decodedList,
                   found, builderVars>>

\* stuffed.FindRecordsWithPrefix(encoded.Bytes(), prefix)
Find ==
    /\ pc = "find"
    /\ \E p \in FindPrefixes :
          /\ prefix' = p
          /\ found' = FindRecordsWithPrefix(stream, p)
    /\ pc' = "found"
    /\ UNCHANGED <<traceVars, codecVars, inputList, gaps, stream, s_record, s_list, hasNext,
                   decodedList, builderVars>>

NextFind == WriteSorted \/ FinishSorted \/ Find

SpecFind == InitFind /\ [][NextFind]_vars

----------------------------------------------------------------------------
(* Properties of the clients of the Scanner and of FindRecordsWithPrefix *)

\* exactly one delimiter pair before each record and after the last
SingleGaps == \A i \in 1..Len(gaps) : gaps[i] = 1

\* C3: stream round trip.  With one delimiter pair before each record and one
\* after the last, the scanner's records decode without error to the list
\* written, in order.
C3_StreamRoundTrip ==
    SingleGaps =>
        /\ pc # "failed"
        /\ pc \in {"scan", "decode", "scanned"} =>
              /\ Len(decodedList) <= Len(inputList)
              /\ \A i \in 1..Len(decodedList) : decodedList[i] = inputList[i]
        /\ pc = "scanned" => Len(decodedList) = Len(inputList)

\* a finished scan of a full list that holds an empty record and a record
\* with a delimiter pair
C3_Witness ==
    /\ pc = "scanned"
    /\ SingleGaps
    /\ Len(inputList) = MaxListed
    /\ \E i \in 1..Len(inputList) : inputList[i] = <<>>
    /\ \E i \in 1..Len(inputList) : BytesIndex(inputList[i]) # -1
    /\ decodedList = inputList

\* the buffer after the first n records of the list were written
RECURSIVE StreamUpTo(_)
StreamUpTo(n) ==
    IF n = 0 THEN <<>>
    ELSE Encode(inputList[n], EncodeDelimiters(StreamUpTo(n - 1), gaps[n]))

\* where the encoding of the i-th record of the list begins and ends in the buffer
RecordStartAt(i) == Len(StreamUpTo(i - 1)) + delimiterLength * gaps[i]
RecordEndAt(i) == Len(StreamUpTo(i))

\* the records of the list that begin with the prefix
Matching == {i \in 1..Len(inputList) : StartsWith(inputList[i], prefix)}
MatchingRecords == SelectSeq(inputList, LAMBDA r : StartsWith(r, prefix))

\* the sub-slice FindRecordsWithPrefix returned
FoundBytes == IF found.isNil THEN <<>> ELSE Slice(stream, found.lo, found.hi)

\* C6: prefix-range completeness.  On a sorted list written with single
\* delimiter pairs, FindRecordsWithPrefix returns no error and a sub-slice
\* that scans and decodes to exactly the records beginning with the prefix,
\* in order; with no such record the sub-slice is empty.
C6_PrefixRange ==
    (pc = "found" /\ SingleGaps) =>
        /\ found.err = "nil"
        /\ LET p == ParseStrings(FoundBytes)
           IN  p.err = "nil" /\ p.list = MatchingRecords
        /\ Matching = {} => FoundBytes = <<>>

\* a full list with a record that comes before the matches, two equal
\* matching records, and a record that comes after them
C6_Witness ==
    /\ pc = "found"
    /\ SingleGaps
    /\ Len(inputList) = MaxRecords
    /\ Len(prefix) > 0
    /\ found.err = "nil"
    /\ \E i \in 1..(Len(inputList) - 1) :
          /\ i \in Matching /\ i + 1 \in Matching
          /\ inputList[i] = inputList[i + 1]
    /\ \E i \in 1..Len(inputList) : i \notin Matching
    /\ ParseStrings(FoundBytes).list = MatchingRecords

\* C7: whenever FindRecordsWithPrefix returns without error, what it returns
\* is a sub-slice of the stream that neither begins nor ends with a delimiter
\* pair: it runs from the first byte of the first matching record to the
\* last byte of the last one, whatever the number of delimiter pairs written.
C7_NoDelimiterAround ==
    (pc = "found" /\ found.err = "nil") =>
        /\ ~HasPrefix(FoundBytes)
        /\ ~HasSuffix(FoundBytes)
        /\ 0 <= found.lo /\ found.lo <= found.hi /\ found.hi <= Len(stream)
        /\ Matching # {} =>
              /\ ~found.isNil
              /\ found.lo = RecordStartAt(CHOOSE i \in Matching : \A j \in Matching : i <= j)
              /\ found.hi = RecordEndAt(CHOOSE i \in Matching : \A j \in Matching : j <= i)

\* matches found between repeated delimiter pairs, with records on both sides
C7_Witness ==
    /\ pc = "found"
    /\ found.err = "nil"
    /\ \A i \in 1..Len(gaps) : gaps[i] = MaxDelims
    /\ Len(inputList) = MaxRecords
    /\ Matching = {2}
    /\ found.lo = RecordStartAt(2)
    /\ found.hi = RecordEndAt(2)

\* the stream of the same list with single delimiter pairs
RECURSIVE SingleStream(_)
SingleStream(list) ==
    IF list = <<>> THEN EncodeDelimiter(<<>>)
    ELSE LET n == Len(list)
             init == SingleStream(SubSeq(list, 1, n - 1))
         IN  EncodeDelimiter(Encode(list[n], init))

\* C8: FindRecordsWithPrefix tolerates any number of delimiter pairs around
\* the records: no error, and the same matching records as on the stream with
\* single delimiter pairs.
C8_ToleratesDelimiters ==
    pc = "found" =>
        /\ found.err = "nil"
        /\ LET single == SingleStream(inputList)
               f == FindRecordsWithPrefix(single, prefix)
               bytes == IF f.isNil THEN <<>> ELSE Slice(single, f.lo, f.hi)
           IN  ParseStrings(FoundBytes) = ParseStrings(bytes)

----------------------------------------------------------------------------
(* A client of RecordBuilder: write bytes, FinishRecord, Sort, then Encode  *)
(* or EncodeWithOffsets into a destination buffer (checkSortedRecordBuilder,*)
(* checkSortedRecordBuilderOffsets).  inputList holds the records finished, *)
(* in the order of the FinishRecord calls; base is what dest held before.  *)

InitBuilder ==
    /\ pc = "build"
    /\ prefix = <<>>
    /\ record = <<>> /\ buf = <<>> /\ decoded = <<>>
    /\ err = "none" /\ cmp = None /\ starts = None
    /\ StreamIdle
    /\ rb_buf = <<>> /\ rb_start = 0 /\ rb_recordIndices = <<>>
    /\ sorted = FALSE
    /\ sortCalled = FALSE
    /\ base = <<>>
    /\ dest = <<>>
    /\ offsets = <<>>
    /\ ReuseIdle
    /\ TraceIdle

\* the strings written to a builder: the empty one, data, a first byte of a
\* delimiter, a delimiter pair, and a delimiter pair before data
BuilderStrings ==
    {<<>>, <<97>>, <<97, 97>>, <<delimiter0>>,
     <<delimiter0, delimiter1>>, <<delimiter0, delimiter1, 97>>}

\* builder.WriteString(str): the content of the next record
Write ==
    /\ pc = "build"
    /\ Len(rb_buf) = rb_start
    /\ \E str \in BuilderStrings : rb_buf' = BuilderWrite(rb_buf, str)
    /\ UNCHANGED <<traceVars, reuseVars, pc, prefix, codecVars, streamVars, rb_start, rb_recordIndices, sorted,
                   sortCalled, dest, offsets>>

\* builder.FinishRecord()
DoFinishRecord ==
    /\ pc = "build"
    /\ Len(rb_recordIndices) < MaxRecords
    /\ rb_recordIndices' = FinishRecord(rb_recordIndices, rb_start, Len(rb_buf))
    /\ rb_start' = Len(rb_buf)
    /\ inputList' = Append(inputList, Slice(rb_buf, rb_start, Len(rb_buf)))
    /\ sorted' = FALSE
    /\ UNCHANGED <<traceVars, reuseVars, pc, prefix, codecVars, gaps, stream, s_record, s_list, hasNext,
                   decodedList, found, rb_buf, sortCalled, dest, offsets>>

\* builder.Sort()
Sort ==
    /\ pc = "build"
    /\ \E r \in SortOutcomes(rb_buf, rb_recordIndices) : rb_recordIndices' = r
    /\ sorted' = TRUE
    /\ sortCalled' = TRUE
    /\ UNCHANGED <<traceVars, reuseVars, pc, prefix, codecVars, streamVars, rb_buf, rb_start, dest, offsets>>

\* builder.Encode(&encoded), encoded holding b before the call
DoBuilderEncode ==
    /\ pc = "build"
    /\ \E b \in Sinks :
          /\ base' = b
          /\ dest' = RecordBuilderEncode(rb_buf, rb_recordIndices, b)
    /\ pc' = "encoded"
    /\ UNCHANGED <<traceVars, reuseVars, prefix, record, buf, decoded, err, cmp, starts, streamVars, rb_buf,
                   rb_start, rb_recordIndices, sorted, sortCalled, offsets>>

\* offsets := builder.EncodeWithOffsets(&encoded), encoded holding b before the call
DoEncodeWithOffsets ==
    /\ pc = "build"
    /\ \E b \in Sinks :
          LET r == EncodeWithOffsets(rb_buf, rb_recordIndices, b)
          IN  base' = b /\ dest' = r.dest /\ offsets' = r.offsets
    /\ pc' = "offsets"
    /\ UNCHANGED <<traceVars, reuseVars, prefix, record, buf, decoded, err, cmp, starts, streamVars, rb_buf,
                   rb_start, rb_recordIndices, sorted, sortCalled>>

NextBuilder == Write \/ DoFinishRecord \/ Sort \/ DoBuilderEncode \/ DoEncodeWithOffsets

SpecBuilder == InitBuilder /\ [][NextBuilder]_vars

----------------------------------------------------------------------------
(* Properties of the builder client *)

\* what the builder's call appended to dest
BuilderAppended == Slice(dest, Len(base), Len(dest))

\* C9: offset consistency.  EncodeWithOffsets returns one offset per finished
\* record; the offset at the 0-based order of the FinishRecord call, sorted
\* or not, counts the content dest held before, and the bytes from it up to
\* the next delimiter pair decode to that raw record.
C9_OffsetConsistency ==
    pc = "offsets" =>
        /\ Len(offsets) = Len(inputList)
        /\ \A i \in 1..Len(inputList) :
              LET rest == Slice(dest, offsets[i], Len(dest))
                  end == BytesIndex(rest)
              IN  /\ offsets[i] >= Len(base)
                  /\ offsets[i] < Len(dest)
                  /\ end # -1
                  /\ Decode(Slice(rest, 0, end), <<>>) =
                         [err |-> "nil", record |-> inputList[i]]

\* offsets taken after a Sort that moved the record finished last to the
\* front, into a destination that was not empty
C9_Witness ==
    /\ pc = "offsets"
    /\ sorted
    /\ Len(inputList) = MaxRecords
    /\ Len(base) > 0
    /\ offsets[Len(inputList)] = Len(base)
    /\ offsets[1] > offsets[2]
    /\ \E i \in 1..Len(inputList) : BytesIndex(inputList[i]) # -1

\* how many times r occurs in list
Count(list, r) == Cardinality({i \in 1..Len(list) : list[i] = r})

\* list is in ascending lexicographic order, stated byte by byte
Ascending(list) ==
    \A i \in 1..(Len(list) - 1) :
        LET a == list[i]
            b == list[i + 1]
        IN  \/ StartsWith(b, a)
            \/ \E k \in 1..Len(a) :
                  /\ k <= Len(b)
                  /\ a[k] < b[k]
                  /\ \A j \in 1..(k - 1) : a[j] = b[j]

\* C10: after Sort, Encode emits the finished records in ascending
\* lexicographic order: the output scans and decodes to a sorted list with
\* the same records, each as many times as it was finished.
C10_SortedEncode ==
    (pc = "encoded" /\ sorted) =>
        LET p == ParseStrings(BuilderAppended)
        IN  /\ p.err = "nil"
            /\ Ascending(p.list)
            /\ Len(p.list) = Len(inputList)
            /\ \A i \in 1..Len(inputList) :
                  Count(p.list, inputList[i]) = Count(inputList, inputList[i])

\* a sorted encoding of records finished in descending order, one a proper
\* prefix of another, one holding a delimiter pair
C10_Witness ==
    /\ pc = "encoded"
    /\ sorted
    /\ Len(inputList) = MaxRecords
    /\ \A i \in 1..(Len(inputList) - 1) : BytesCompare(inputList[i], inputList[i + 1]) > 0
    /\ \E i \in 1..(Len(inputList) - 1) : StartsWith(inputList[i], inputList[i + 1])
    /\ \E i \in 1..Len(inputList) : BytesIndex(inputList[i]) # -1
    /\ Ascending(ParseStrings(BuilderAppended).list)

\* the finished records in the order RecordBuilder stores them
StoredRecords == [i \in 1..Len(rb_recordIndices) |->
                     inputList[rb_recordIndices[i].originalIndex + 1]]

\* each record of the list encoded on its own and followed by one delimiter pair
RECURSIVE Framed(_)
Framed(list) ==
    IF list = <<>> THEN <<>>
    ELSE Encode(Head(list), <<>>) \o <<254, 253>> \o Framed(Tail(list))

\* C11: RecordBuilder.Encode appends, for each finished record in stored
\* order, the record's encoding followed by exactly one delimiter pair, with
\* no delimiter in front; when Sort was never called the output scans and
\* decodes to the records in the order of the FinishRecord calls, a
\* FinishRecord with nothing written since the last one giving an empty
\* record.
C11_BuilderEncode ==
    pc = "encoded" =>
        /\ BuilderAppended = Framed(StoredRecords)
        /\ ~HasPrefix(BuilderAppended)
        /\ CountDelimiters(BuilderAppended) = Len(rb_recordIndices)
        /\ ~sortCalled =>
              ParseStrings(BuilderAppended) = [err |-> "nil", list |-> inputList]

\* an encoding without Sort of a full builder, into a destination that was
\* not empty, of records of which one is empty and one holds a delimiter pair
C11_Witness ==
    /\ pc = "encoded"
    /\ ~sortCalled
    /\ Len(base) > 0
    /\ Len(inputList) = MaxRecords
    /\ \E i \in 1..Len(inputList) : inputList[i] = <<>>
    /\ \E i \in 1..Len(inputList) : BytesIndex(inputList[i]) # -1
    /\ ParseStrings(BuilderAppended).list = inputList

\* the orders Sort could have left the records in: those an unstable
\* ascending sort may give the records now in the builder
OtherOrders == SortOutcomes(rb_buf, rb_recordIndices)

\* the finished records with the same content as the i-th finished
SameContent(i) == {j \in 1..Len(inputList) : inputList[j] = inputList[i]}

\* C16: no observable behaviour depends on sort stability.  After Sort, the
\* bytes Encode writes and the offsets EncodeWithOffsets returns are the same
\* for every order an unstable ascending sort may give to equal records.
C16_StabilityUnobservable ==
    sorted =>
        /\ pc = "encoded" =>
              \A r \in OtherOrders : RecordBuilderEncode(rb_buf, r, base) = dest
        /\ pc = "offsets" =>
              \A r \in OtherOrders :
                  EncodeWithOffsets(rb_buf, r, base) = [dest |-> dest, offsets |-> offsets]

\* C16 as it holds: after Sort, the bytes Encode and EncodeWithOffsets write
\* are the same for every order an unstable ascending sort may give to equal
\* records, and so is, for each record, the set of offsets returned for the
\* records with its content; the offset of a record whose content no other
\* record has is the same in every order.
C16_StabilityOfBytes ==
    sorted =>
        /\ pc = "encoded" =>
              \A r \in OtherOrders : RecordBuilderEncode(rb_buf, r, base) = dest
        /\ pc = "offsets" =>
              \A r \in OtherOrders :
                  LET e == EncodeWithOffsets(rb_buf, r, base)
                  IN  /\ e.dest = dest
                      /\ Len(e.offsets) = Len(offsets)
                      /\ \A i \in 1..Len(offsets) :
                            /\ {e.offsets[j] : j \in SameContent(i)} =
                                   {offsets[j] : j \in SameContent(i)}
                            /\ SameContent(i) = {i} => e.offsets[i] = offsets[i]

\* offsets taken after a Sort of a full builder in which two records have
\* the same content and a third another, so that Sort had a choice
C16_Witness ==
    /\ pc = "offsets"
    /\ sorted
    /\ Len(inputList) = MaxRecords
    /\ Cardinality(OtherOrders) > 1
    /\ \E i \in 1..Len(inputList) : SameContent(i) = {i}
    /\ \E r \in OtherOrders :
          EncodeWithOffsets(rb_buf, r, base).offsets # offsets

----------------------------------------------------------------------------
(* A client that goes on using a RecordBuilder: it writes a record in      *)
(* several pieces, calls FinishRecord, Sort, Encode and EncodeWithOffsets  *)
(* in any order, bytes of an unfinished record being in the builder or     *)
(* not, and encodes the same builder more than once.  The destination of   *)
(* a call is a buffer of its own, and the client keeps of a call only the  *)
(* bytes it appended; it keeps no note of its Sort calls.                  *)

\* the pieces written: data ending in the first byte of the delimiter, and
\* the second byte of the delimiter
ReusePieces == {<<97, delimiter0>>, <<delimiter1>>}

\* the pieces written since the last FinishRecord
RECURSIVE PendingPieces(_)
PendingPieces(p) ==
    IF p = <<>> THEN 0
    ELSE IF Head(p) = 97 THEN 1 + PendingPieces(Tail(Tail(p)))
    ELSE 1 + PendingPieces(Tail(p))

\* the log of calls after one more call: the call before it and the call
Logged(log, call) ==
    IF log = <<>> THEN <<call>> ELSE <<log[Len(log)], call>>

InitReuse ==
    /\ pc = "reuse"
    /\ prefix = <<>>
    /\ CodecIdle
    /\ StreamIdle
    /\ BuilderIdle
    /\ TraceIdle

\* builder.Write(p)
ReuseWrite ==
    /\ pc = "reuse"
    /\ \E p \in ReusePieces :
          /\ PendingPieces(pending) < MaxPending
          /\ rb_buf' = BuilderWrite(rb_buf, p)
          /\ pending' = pending \o p
    /\ emitted' = <<>>
    /\ UNCHANGED <<traceVars, pc, prefix, codecVars, streamVars, rb_start, rb_recordIndices,
                   sorted, sortCalled, dest, offsets>>

\* builder.FinishRecord()
ReuseFinishRecord ==
    /\ pc = "reuse"
    /\ Len(rb_recordIndices) < MaxFinished
    /\ rb_recordIndices' = FinishRecord(rb_recordIndices, rb_start, Len(rb_buf))
    /\ rb_start' = Len(rb_buf)
    /\ inputList' = Append(inputList, pending)
    /\ pending' = <<>>
    /\ emitted' = <<>>
    /\ UNCHANGED <<traceVars, pc, prefix, codecVars, gaps, stream, s_record, s_list, hasNext,
                   decodedList, found, rb_buf, sorted, sortCalled, dest, offsets>>

\* builder.Sort()
ReuseSort ==
    /\ pc = "reuse"
    /\ \E r \in SortOutcomes(rb_buf, rb_recordIndices) : rb_recordIndices' = r
    /\ emitted' = <<>>
    /\ UNCHANGED <<traceVars, pc, prefix, codecVars, streamVars, rb_buf, rb_start, sorted,
                   sortCalled, dest, offsets, pending>>

\* builder.Encode(&encoded), encoded holding b before the call
ReuseEncode ==
    /\ pc = "reuse"
    /\ \E b \in Sinks :
          LET d == RecordBuilderEncode(rb_buf, rb_recordIndices, b)
          IN  emitted' = Logged(emitted, Slice(d, Len(b), Len(d)))
    /\ UNCHANGED <<traceVars, pc, prefix, codecVars, streamVars, rb_buf, rb_start,
                   rb_recordIndices, sorted, sortCalled, dest, offsets, pending>>

\* offsets := builder.EncodeWithOffsets(&encoded), encoded holding b before the call
ReuseEncodeWithOffsets ==
    /\ pc = "reuse"
    /\ \E b \in Sinks :
          LET r == EncodeWithOffsets(rb_buf, rb_recordIndices, b)
          IN  emitted' = Logged(emitted, Slice(r.dest, Len(b), Len(r.dest)))
    /\ UNCHANGED <<traceVars, pc, prefix, codecVars, streamVars, rb_buf, rb_start,
                   rb_recordIndices, sorted, sortCalled, dest, offsets, pending>>

NextReuse ==
    ReuseWrite \/ ReuseFinishRecord \/ ReuseSort \/ ReuseEncode \/ ReuseEncodeWithOffsets

SpecReuse == InitReuse /\ [][NextReuse]_vars

----------------------------------------------------------------------------
(* Properties of the builder that is used again *)

\* the entries of recordIndices, in no order
Entries(indices) == {indices[i] : i \in 1..Len(indices)}

\* the index of the builder is as FinishRecord left it, but for its order
IndexInvariant ==
    LET n == Len(rb_recordIndices)
        e(i) == rb_recordIndices[i]
    IN  /\ n = Len(inputList)
        /\ {e(i).originalIndex : i \in 1..n} = 0..(n - 1)
        /\ \A i \in 1..n :
              /\ 0 <= e(i).start
              /\ e(i).start <= e(i).end
              /\ e(i).end <= Len(rb_buf)
              /\ e(i).end <= rb_start
              /\ Slice(rb_buf, e(i).start, e(i).end) = inputList[e(i).originalIndex + 1]
        /\ \A i, j \in 1..n :
              i # j => e(i).end <= e(j).start \/ e(j).end <= e(i).start
        /\ \A at \in 0..(rb_start - 1) :
              \E i \in 1..n : e(i).start <= at /\ at < e(i).end
        /\ rb_start <= Len(rb_buf)
        /\ Slice(rb_buf, rb_start, Len(rb_buf)) = pending

\* a step that adds no entry to the index leaves it the entries it had,
\* and only a write changes the buffer
OnlyOrderChanges ==
    Len(rb_recordIndices') = Len(rb_recordIndices) =>
        /\ Entries(rb_recordIndices') = Entries(rb_recordIndices)
        /\ rb_start' = rb_start
        /\ pending' = pending => rb_buf' = rb_buf

\* C22: after any sequence of writes, FinishRecord and Sort calls, the
\* original indices of the index entries are 0..n-1, each once; every entry
\* has 0 <= start <= end <= buffer length; the ranges are pairwise disjoint
\* and cover the buffer from 0 up to the start of the record in progress;
\* the entry with original index k spans the bytes written between the k-th
\* and the (k+1)-th FinishRecord; Sort changes only the order of the entries.
C22_IndexInvariant == []IndexInvariant /\ [][OnlyOrderChanges]_vars

\* a builder whose two records, the first written in two pieces and holding
\* a delimiter pair, were put in the other order by Sort, with bytes of a
\* third record written since
C22_Witness ==
    /\ pc = "reuse"
    /\ Len(rb_recordIndices) = 2
    /\ rb_recordIndices[1].originalIndex = 1
    /\ inputList[1] = <<97, delimiter0, delimiter1>>
    /\ inputList[2] # <<>>
    /\ BytesCompare(inputList[2], inputList[1]) < 0
    /\ pending # <<>>

\* a call that logs what it appended leaves the builder as it was
EncodeLeavesBuilder ==
    (emitted' # <<>> /\ Len(emitted') >= Len(emitted)) =>
        /\ rb_buf' = rb_buf
        /\ rb_start' = rb_start
        /\ rb_recordIndices' = rb_recordIndices
        /\ pending' = pending
        /\ inputList' = inputList

\* C26: Encode and EncodeWithOffsets leave the builder unchanged and write
\* finished records only.  What a call appends is the records finished so
\* far, in the order of the index, each followed by a delimiter pair; bytes
\* written since the last FinishRecord are not in it, and are in it as part
\* of the next record once FinishRecord was called; a call that follows
\* another with no builder operation between them appends the same bytes.
C26_EncodeFrame ==
    /\ [](pc = "reuse" =>
             \A k \in 1..Len(emitted) :
                 /\ emitted[k] = Framed(StoredRecords)
                 /\ CountDelimiters(emitted[k]) = Len(inputList)
                 /\ emitted[k] = emitted[1])
    /\ [][EncodeLeavesBuilder]_vars

\* two calls in a row on a builder that holds a record written in two
\* pieces, an empty record, and bytes of a record that is not finished
C26_Witness ==
    /\ pc = "reuse"
    /\ Len(emitted) = 2
    /\ emitted[1] = emitted[2]
    /\ Len(inputList) = 2
    /\ <<97, delimiter0, delimiter1>> \in {inputList[1], inputList[2]}
    /\ <<>> \in {inputList[1], inputList[2]}
    /\ pending # <<>>

============================================================================
